---- MODULE Spec2Model ----
(***************************************************************************)
(* Campaign dispatch workflow of smartzap                                  *)
(* (src/app/api/campaign/workflow/route.ts): the durable steps             *)
(* init-campaign, send-batch-<i>, complete-campaign, the bulk claim        *)
(* pending -> sending, the bounded worker pool, the bulk persistence with  *)
(* its per-row fallback, the campaign counters, and the adaptive throttle  *)
(* feedback (recordThroughputExceeded / recordStableBatch).                *)
(***************************************************************************)
EXTENDS Integers, Sequences, FiniteSets, TLC

\* ------------------------------------------------------------------ bounds
MaxContacts == 3
ConfiguredBatchSize == 2
ConfiguredConcurrency == 2
MaxTime == 4
NumInvocations == 2
NumCampaigns == 2
MaxFaults == 1
MinMps == 1
MaxMps == 4
CooldownSec == 2
MinIncreaseGapSec == 1

\* ------------------------------------------------------- program constants
Retries == 3
ThroughputExceededCode == 130429
MinBatchSize == 1
MaxBatchSize == 200
MinConcurrency == 1
MaxConcurrency == 50

NULL == "null"
TS == "ts"

Min2(a, b) == IF a < b THEN a ELSE b
Max2(a, b) == IF a > b THEN a ELSE b

\* --------------------------------------------------------------- identities
\* A contactId is a string, modelled as a sequence of one-character strings.
Letters == <<"a", "b", "c", "d", "e">>
Space == " "

RECURSIVE TrimLeft(_)
TrimLeft(s) == IF s # <<>> /\ Head(s) = Space THEN TrimLeft(Tail(s)) ELSE s

RECURSIVE TrimRight(_)
TrimRight(s) ==
  IF s # <<>> /\ s[Len(s)] = Space THEN TrimRight(SubSeq(s, 1, Len(s) - 1)) ELSE s

\* String.prototype.trim
Trim(s) == TrimRight(TrimLeft(s))

\* contact_id values of the campaign_contacts rows of the campaign
DbIds == {<<Letters[k]>> : k \in 1..MaxContacts}

\* contactId values a payload entry may carry: missing/empty, blank, or a letter
IdValues == {<<>>, <<Space>>} \cup DbIds

LetterIndex(id) == CHOOSE k \in 1..MaxContacts : id = <<Letters[k]>>

\* Payloads up to renaming of the identities: a letter other than the first
\* appears only after its predecessor.
CanonicalPayload(s) ==
  \A i \in 1..Len(s) :
    (Trim(s[i]) \in DbIds /\ LetterIndex(Trim(s[i])) > 1) =>
      \E j \in 1..(i - 1) : Trim(s[j]) = <<Letters[LetterIndex(Trim(s[i])) - 1]>>

Payloads ==
  {s \in UNION {[1..n -> IdValues] : n \in 1..MaxContacts} : CanonicalPayload(s)}

\* contactId values that carry a leading space around the id of a row
PaddedIds == {<<Space>> \o id : id \in DbIds}

\* batches whose every entry names a row, with or without padding
PoolPayloads ==
  {s \in UNION {[1..n -> DbIds \cup PaddedIds] : n \in 1..Min2(MaxContacts, ConfiguredBatchSize)} :
     CanonicalPayload(s)}

DistinctIds(s) == \A i, j \in 1..Len(s) : s[i] = s[j] => i = j

\* ------------------------------------------------------------------- state
VARIABLES
  contacts,          \* context.requestPayload.contacts (their contactId)
  rows,              \* campaign_contacts rows of the campaign, by contact_id
  campaign,          \* campaigns row: status and counters
  wf,                \* position of the workflow run
  batchIndex,        \* index of the send-batch step being run
  attempts,          \* re-executions of the current step so far
  faults,            \* crashes and thrown steps of the run so far
  phase,             \* position inside the send-batch step
  exitKind,          \* how the try block of the step was left (paused: return at the pause check)
  claimedIds,        \* claimedIds of this step execution
  writeOps,          \* writeOps of this step execution
  counts,            \* sentCount / failedCount / skippedCount
  sawThroughput429,  \* flag of this step execution
  nextIndex,         \* shared cursor of the worker pool
  workers,           \* the workers of the pool
  fbIndex,           \* position of the per-row fallback loop
  adaptiveEnabled,   \* adaptiveConfig.enabled
  limiterRate,       \* rate of the limiter of this step execution (0: none)
  thr,               \* shared throttle state of the phone number
  now,               \* clock
  sends,             \* history: external send calls per contact id
  sendsInExec,       \* history: external send calls of this step execution
  decreases,         \* history: decreases applied in this step execution
  claimErrored,      \* history: the claim of this step execution got an error
  replay,            \* history: snapshot taken when a completed step is replayed
  stableChecks,      \* history: stable-batch checks issued by the step execution
  stepLog,           \* history: batch_start / batch_end events of the step execution, its exit
  inv,               \* concurrent claim invocations
  everLeft,          \* history: rows that ever left pending
  camps,             \* campaigns signalling the shared throttle state
  profiles,          \* contact data of the batch entries, where fixed in advance
  diag,              \* diagnostics of one failed write op and the columns stored for it
  sentRow,           \* one recipient row with all its columns, persisted as sent
  lastSent,          \* lastSentAt of the campaign over its send-batch steps
  inbox,             \* one run of processInboxAIWorkflow and the Redis keys of its conversation
  auth,              \* login_attempts setting and the loginUser calls in flight
  variant,           \* send-batch step of the per-contact-claim workflow and its replay
  stats              \* one GET /api/campaigns/[id]/messages request and the rows it counts

dbVars == <<rows, campaign>>
stepVars == <<exitKind, claimedIds, writeOps, counts, sawThroughput429,
              nextIndex, workers, fbIndex, limiterRate>>
histVars == <<sends, sendsInExec, decreases, claimErrored, replay, faults, stableChecks, stepLog>>
thrVars == <<thr, now>>
auxVars == <<inv, everLeft, camps, profiles, diag, sentRow, lastSent, inbox, auth, variant, stats>>

vars == <<contacts, rows, campaign, wf, batchIndex, attempts, faults, phase, exitKind,
          claimedIds, writeOps, counts, sawThroughput429, nextIndex, workers,
          fbIndex, adaptiveEnabled, limiterRate, thr, now, sends,
          sendsInExec, decreases, claimErrored, replay, stableChecks, stepLog, inv, everLeft, camps,
          profiles, diag, sentRow, lastSent, inbox, auth, variant, stats>>

\* ------------------------------------------------------- adaptive throttle
\* Throttle Controller (AIMD) of @/lib/whatsapp-adaptive-throttle.

\* lastIncreaseAt of a state that was never increased
Never == 0 - 1

InitialThrottle == [targetMps |-> MaxMps, cooldownUntil |-> 0, lastIncreaseAt |-> Never]

DecreasedStateNoFloor(s, t) ==
  [targetMps |-> s.targetMps \div 2,
   cooldownUntil |-> t + CooldownSec,
   lastIncreaseAt |-> s.lastIncreaseAt]

\* recordThroughputExceeded: multiplicative decrease, floor at minMps
DecreasedState(s, t) ==
  [targetMps |-> Max2(MinMps, s.targetMps \div 2),
   cooldownUntil |-> t + CooldownSec,
   lastIncreaseAt |-> s.lastIncreaseAt]

RecordThroughputExceeded(s, t) ==
  [changed |-> TRUE, previous |-> s, next |-> DecreasedState(s, t)]

MayIncreaseInCooldown(s, t) ==
  /\ (s.lastIncreaseAt = Never \/ t - s.lastIncreaseAt >= MinIncreaseGapSec)
  /\ s.targetMps < MaxMps

\* recordStableBatch: additive increase outside cooldown, one per gap
MayIncrease(s, t) ==
  /\ t >= s.cooldownUntil
  /\ (s.lastIncreaseAt = Never \/ t - s.lastIncreaseAt >= MinIncreaseGapSec)
  /\ s.targetMps < MaxMps

IncreasedState(s, t) ==
  [targetMps |-> Min2(MaxMps, s.targetMps + 1),
   cooldownUntil |-> s.cooldownUntil,
   lastIncreaseAt |-> t]

RecordStableBatch(s, t) ==
  IF MayIncrease(s, t)
  THEN [changed |-> TRUE, previous |-> s, next |-> IncreasedState(s, t)]
  ELSE [changed |-> FALSE, previous |-> s, next |-> s]

\* ------------------------------------------------------------ batching
BATCH_SIZE == Max2(MinBatchSize, Min2(MaxBatchSize, ConfiguredBatchSize))
concurrency == Max2(MinConcurrency, Min2(MaxConcurrency, ConfiguredConcurrency))

NumBatches(cs) == (Len(cs) + BATCH_SIZE - 1) \div BATCH_SIZE

Batch(cs, i) == SubSeq(cs, i * BATCH_SIZE + 1, Min2(Len(cs), (i + 1) * BATCH_SIZE))

batch == Batch(contacts, batchIndex)

workerCount == Min2(concurrency, Len(batch))

\* ------------------------------------------------------------ claim
\* ids of bulkClaimPendingForSend: trimmed, non-empty, de-duplicated
ClaimIds(cs) == {Trim(cs[i]) : i \in 1..Len(cs)} \ {<<>>}

ClaimMatchesAnyStatus(rws, ids) == {id \in DOMAIN rws : id \in ids}

ClaimMatchesNotTerminal(rws, ids) ==
  {id \in DOMAIN rws : id \in ids /\ rws[id].status \in {"pending", "sending"}}

\* rows matched by the conditional update: status = 'pending', contact_id in ids
ClaimMatches(rws, ids) == {id \in DOMAIN rws : id \in ids /\ rws[id].status = "pending"}

BulkClaimReturnsRequested(rws, cs, storeOk) ==
  LET ids == ClaimIds(cs)
      hit == IF ids = {} \/ ~storeOk THEN {} ELSE ClaimMatches(rws, ids)
  IN [rows |-> [id \in DOMAIN rws |->
                  IF id \in hit THEN [rws[id] EXCEPT !.status = "sending"] ELSE rws[id]],
      claimedIds |-> IF storeOk THEN ids ELSE {},
      error |-> (ids # {} /\ ~storeOk)]

\* bulkClaimPendingForSend: the rows after the update and the claimedIds returned
BulkClaimPendingForSend(rws, cs, storeOk) ==
  LET ids == ClaimIds(cs)
      hit == IF ids = {} \/ ~storeOk THEN {} ELSE ClaimMatches(rws, ids)
  IN [rows |-> [id \in DOMAIN rws |->
                  IF id \in hit THEN [rws[id] EXCEPT !.status = "sending"] ELSE rws[id]],
      claimedIds |-> hit,
      error |-> (ids # {} /\ ~storeOk)]

\* ------------------------------------------------------------ persistence
\* one row of upsertRows: every terminal timestamp is reset for the new status
UpsertRow(r, status) ==
  [status |-> status,
   sent_at |-> IF status = "sent" THEN TS ELSE NULL,
   failed_at |-> IF status = "failed" THEN TS ELSE NULL,
   skipped_at |-> IF status = "skipped" THEN TS ELSE NULL]

\* the update object of updateContactStatus applied to a row
UpdateContactStatusRow(r, status) ==
  IF status = "sent"
    THEN [r EXCEPT !.status = "sent", !.sent_at = TS, !.skipped_at = NULL]
  ELSE IF status = "failed"
    THEN [r EXCEPT !.status = "failed", !.failed_at = TS]
  ELSE [r EXCEPT !.status = "skipped", !.skipped_at = TS]

\* contact ids of the write operations
OpIds(ops) == {ops[i].cid : i \in 1..Len(ops)}

DuplicateKeys(ops) == \E i, j \in 1..Len(ops) : i # j /\ ops[i].cid = ops[j].cid

\* status of the upsert row of a contact id (keys are unique when the upsert succeeds)
OpStatus(ops, id) == ops[CHOOSE i \in 1..Len(ops) : ops[i].cid = id].status

\* ------------------------------------------------------------ workflow run
missingContactIdsNoTrim(cs) == {i \in 1..Len(cs) : cs[i] = <<>>}

\* entries of the payload without a usable contactId
missingContactIds(cs) == {i \in 1..Len(cs) : cs[i] = <<>> \/ Len(Trim(cs[i])) = 0}

IdleWorker == [pc |-> "idle", idx |-> 0]
DoneWorker == [pc |-> "done", idx |-> 0]
NoWorkers == [w \in 1..concurrency |-> DoneWorker]
ZeroCounts == [sent |-> 0, failed |-> 0, skipped |-> 0]
NoReplay == [on |-> FALSE, rows |-> <<>>, counters |-> ZeroCounts, sends |-> <<>>]

Counters(c) == [sent |-> c.sent, failed |-> c.failed, skipped |-> c.skipped]

\* rows as the dispatch leaves them: pending, possibly with the terminal
\* timestamp of an earlier run of the same recipient (resend)
PendingRow(stale) ==
  [status |-> "pending",
   sent_at |-> IF stale = "sent_at" THEN TS ELSE NULL,
   failed_at |-> IF stale = "failed_at" THEN TS ELSE NULL,
   skipped_at |-> IF stale = "skipped_at" THEN TS ELSE NULL]

StaleKinds == {"none", "sent_at", "failed_at", "skipped_at"}

\* trace events of the step execution (emitWorkflowTrace) and the way the
\* step function was left: "return", "throw", or "crash" when its process died;
\* paused: it returned at its pause check
NoStepLog == [events |-> <<>>, exit |-> "none", paused |-> FALSE]

\* phase batch_start, emitted first in the step function
BatchStartEvent == [phase |-> "batch_start", ok |-> TRUE]

StartedStepLog == [events |-> <<BatchStartEvent>>, exit |-> "none", paused |-> FALSE]

BatchOkAlways(kind) == TRUE

\* batchOk: true unless the catch of the try block of the step ran
BatchOk(kind) == kind # "throw"

\* phase batch_end, emitted last in the finally block
BatchEndEvent(kind) == [phase |-> "batch_end", ok |-> BatchOk(kind)]

\* local state of a step execution that has not started
ResetStep ==
  /\ exitKind = "none"
  /\ claimedIds = {}
  /\ writeOps = <<>>
  /\ counts = ZeroCounts
  /\ sawThroughput429 = FALSE
  /\ nextIndex = 0
  /\ workers = NoWorkers
  /\ fbIndex = 0
  /\ limiterRate = 0

ResetStepNext ==
  /\ exitKind' = "none"
  /\ claimedIds' = {}
  /\ writeOps' = <<>>
  /\ counts' = ZeroCounts
  /\ sawThroughput429' = FALSE
  /\ nextIndex' = 0
  /\ workers' = NoWorkers
  /\ fbIndex' = 0
  /\ limiterRate' = 0
  /\ sendsInExec' = 0
  /\ decreases' = 0
  /\ claimErrored' = FALSE

AuxIdle ==
  /\ inv = <<>>
  /\ everLeft = {}
  /\ camps = <<>>
  /\ profiles = <<>>
  /\ diag = <<>>
  /\ sentRow = <<>>
  /\ lastSent = <<>>
  /\ inbox = <<>>
  /\ auth = <<>>
  /\ variant = <<>>
  /\ stats = <<>>

Init ==
  /\ contacts \in Payloads \cup {<<>>}
  /\ rows = [id \in DbIds |-> PendingRow("none")]
  /\ campaign = [status |-> "draft", sent |-> 0, failed |-> 0, skipped |-> 0,
                 recipients |-> Len(contacts), completedAt |-> NULL]
  /\ wf = "start"
  /\ batchIndex = 0
  /\ attempts = 0
  /\ faults = 0
  /\ phase = "none"
  /\ ResetStep
  /\ adaptiveEnabled \in BOOLEAN
  /\ thr = InitialThrottle
  /\ now = 0
  /\ sends = [id \in DbIds |-> 0]
  /\ sendsInExec = 0
  /\ decreases = 0
  /\ claimErrored = FALSE
  /\ replay = NoReplay
  /\ stableChecks = 0
  /\ stepLog = NoStepLog
  /\ AuxIdle

\* the payload check that precedes every step
CheckPayload ==
  /\ wf = "start"
  /\ wf' = IF missingContactIds(contacts) # {} THEN "aborted" ELSE "init"
  /\ UNCHANGED <<contacts, dbVars, batchIndex, attempts, phase, stepVars,
                 adaptiveEnabled, thrVars, histVars, auxVars>>

\* step init-campaign
InitCampaign ==
  /\ wf = "init"
  /\ campaign' = [campaign EXCEPT !.status = "sending", !.completedAt = NULL]
  /\ IF NumBatches(contacts) > 0
       THEN wf' = "batch" /\ phase' = "start"
       ELSE wf' = "complete" /\ phase' = "none"
  /\ UNCHANGED <<contacts, rows, batchIndex, attempts, stepVars,
                 adaptiveEnabled, thrVars, histVars, auxVars>>

\* ------------------------------------------------------------ send-batch step
PauseCheckSkipped(c) == FALSE

\* the pause check at the entry of the step
PauseCheck(c) == c.status = "paused"

\* the step function starts: template, pause check, throttle state, limiter
BatchStart ==
  /\ wf = "batch" /\ phase = "start"
  /\ \/ /\ faults < MaxFaults           \* template not found / throttle state unreadable
        /\ faults' = faults + 1
        /\ exitKind' = "throw"
        /\ phase' = "finally"
        /\ UNCHANGED limiterRate
     \/ /\ PauseCheck(campaign)
        /\ exitKind' = "paused"
        /\ phase' = "finally"
        /\ UNCHANGED <<limiterRate, faults>>
     \/ /\ ~PauseCheck(campaign)
        /\ limiterRate' = IF adaptiveEnabled THEN thr.targetMps ELSE 0
        /\ phase' = "claim"
        /\ UNCHANGED <<exitKind, faults>>
  /\ stableChecks' = 0
  /\ stepLog' = StartedStepLog
  /\ UNCHANGED <<contacts, dbVars, wf, batchIndex, attempts, claimedIds, writeOps,
                 counts, sawThroughput429, nextIndex, workers, fbIndex,
                 adaptiveEnabled, thrVars, sends, sendsInExec, decreases,
                 claimErrored, replay, auxVars>>

ZeroClaimReturnNever(claimed) == FALSE

\* the step returns early when nothing was claimed
ZeroClaimReturn(claimed) == Cardinality(claimed) = 0

\* bulk claim of the batch, then the zero-claim return or the start of the pool
BatchClaim ==
  /\ wf = "batch" /\ phase = "claim"
  /\ \E storeOk \in BOOLEAN :
       LET res == BulkClaimPendingForSend(rows, batch, storeOk) IN
         /\ rows' = res.rows
         /\ claimedIds' = res.claimedIds
         /\ claimErrored' = res.error
         /\ IF ZeroClaimReturn(res.claimedIds)
              THEN /\ exitKind' = "return"
                   /\ phase' = "finally"
                   /\ UNCHANGED workers
              ELSE /\ phase' = "workers"
                   /\ workers' = [w \in 1..concurrency |->
                                    IF w <= workerCount THEN IdleWorker ELSE DoneWorker]
                   /\ UNCHANGED exitKind
  /\ UNCHANGED <<contacts, campaign, wf, batchIndex, attempts, writeOps, counts,
                 sawThroughput429, nextIndex, fbIndex, limiterRate, adaptiveEnabled,
                 thrVars, sends, sendsInExec, decreases, replay, faults, stableChecks, stepLog, auxVars>>

\* ------------------------------------------------------------ worker pool
\* processContact only handles a contact claimed by this step execution
IsClaimedNow(claimed, cid) == cid \in claimed

\* value of opts.errorCode of a write operation that carries none
NoCode == 0 - 1

\* value of the resp field of a write operation made without a send response
NoResponse == "none"

\* opts of a write operation; resp keeps the send response it was made for
NoOpts ==
  [errorCode |-> NoCode, resp |-> NoResponse, skipCode |-> NULL, skipReason |-> NULL,
   error |-> NULL]

PushWriteOp(ops, i, status, opts) ==
  Append(ops, [idx |-> i, cid |-> batch[i], status |-> status,
               errorCode |-> opts.errorCode, resp |-> opts.resp,
               skipCode |-> opts.skipCode, skipReason |-> opts.skipReason,
               error |-> opts.error])

Bump(c, status) == [c EXCEPT ![status] = @ + 1]

\* contact data read by processContact: the email the template token
\* {{email}} resolves to, the opt-out status of the contact, an active
\* suppression of its phone
Profiles == [email : {"", "x"}, optOut : BOOLEAN, suppressed : BOOLEAN]

\* the data of entry i of the batch: as fixed in advance, or any
ProfileOf(i) == IF i \in DOMAIN profiles THEN {profiles[i]} ELSE Profiles

\* reason of a precheck that found body parameter 1, {{email}}, empty
MissingParamReason == "body:1 raw=\"{{email}}\""

\* precheckContactForTemplate for a template whose body parameter 1 is {{email}}
Precheck(p) ==
  IF p.email = ""
    THEN [ok |-> FALSE, skipCode |-> "MISSING_REQUIRED_PARAM",
          reason |-> MissingParamReason]
    ELSE [ok |-> TRUE, skipCode |-> NULL, reason |-> NULL]

\* the checks of processContact in their order: precheck, opt-out, suppression;
\* the opts of the skipped write operation, NoOpts for a contact that is sent to
SkipOpts(p) ==
  IF ~Precheck(p).ok
    THEN [NoOpts EXCEPT !.skipCode = Precheck(p).skipCode,
                        !.skipReason = Precheck(p).reason]
  ELSE IF p.optOut THEN [NoOpts EXCEPT !.skipCode = "OPT_OUT", !.skipReason = "opt-out"]
  ELSE IF p.suppressed
    THEN [NoOpts EXCEPT !.skipCode = "SUPPRESSED", !.skipReason = "suppressed"]
  ELSE NoOpts

PrecheckSkipFails(p) == "failed"

\* status of the write operation of a contact that is not sent to
SkipStatus(p) == "skipped"

\* outcomes of the external send call: a 2xx response with or without a message
\* id, an error response (with a stray id, with another code, with the
\* throughput-exceeded code), or an exception (timeout, transport error)
Responses == {"ok_id", "ok_noid", "err_id", "err", "err429", "throw"}

\* response.ok
ResponseOk(r) == r \in {"ok_id", "ok_noid"}

\* data.messages?.[0]?.id
MessageId(r) == r \in {"ok_id", "err_id"}

SentResponseTransportOnly(r) == ResponseOk(r)

\* the response is classified sent
SentResponse(r) == ResponseOk(r) /\ MessageId(r)

OtherErrorCode == 131000
errorCode(r) ==
  IF r = "err429" THEN ThroughputExceededCode
  ELSE IF r \in {"err", "err_id"} THEN OtherErrorCode ELSE 0

\* error.message of an exception raised while a contact is processed
ExceptionMessage == "exception message"

\* errorWithCode of an error response
ErrorWithCode(r) ==
  IF errorCode(r) = ThroughputExceededCode THEN "(#130429)"
  ELSE IF errorCode(r) = OtherErrorCode THEN "(#131000)"
  ELSE "(#0)"

\* opts of the failed write operation of the per-contact catch
CatchOpts(r) == [NoOpts EXCEPT !.resp = r, !.error = ExceptionMessage]

WorkerAfterCatchStops == DoneWorker

WorkerAfterCatchHangs == [pc |-> "hung", idx |-> 0]

\* the worker after the catch of processContact: back in its loop
WorkerAfterCatch == IdleWorker

\* value of sawThroughput429 when the decrease call is awaited
FlagBeforeAwaitNotSet(saw) == saw
FlagBeforeAwait(saw) == TRUE

\* processContact after limiter.acquire: precheck, opt-out, suppression, then
\* either a skipped write operation or the external send call
AfterAcquire(w, i) ==
  \E p \in ProfileOf(i) :
    IF SkipOpts(p) = NoOpts
      THEN /\ sends' = [sends EXCEPT ![batch[i]] = @ + 1]
           /\ sendsInExec' = sendsInExec + 1
           /\ workers' = [workers EXCEPT ![w] = [pc |-> "fetch", idx |-> i]]
           /\ UNCHANGED <<writeOps, counts>>
      ELSE /\ writeOps' = PushWriteOp(writeOps, i, SkipStatus(p), SkipOpts(p))
           /\ counts' = Bump(counts, SkipStatus(p))
           /\ workers' = [workers EXCEPT ![w] = IdleWorker]
           /\ UNCHANGED <<sends, sendsInExec>>

CursorNotAdvanced(n) == n

\* nextIndex += 1, in the same synchronous stretch as the read of the cursor
AdvanceCursor(n) == n + 1

AcquireNeededNever(rate) == FALSE

\* if (limiter) await limiter.acquire(): a limiter exists when the adaptive
\* throttle is enabled
AcquireNeeded(rate) == rate # 0

\* a worker takes the next index of the batch
WorkerPull(w) ==
  /\ wf = "batch" /\ phase = "workers"
  /\ workers[w].pc = "idle"
  /\ nextIndex' = AdvanceCursor(nextIndex)
  /\ IF nextIndex >= Len(batch)
       THEN /\ workers' = [workers EXCEPT ![w] = DoneWorker]
            /\ UNCHANGED <<writeOps, counts, sends, sendsInExec>>
       ELSE IF ~IsClaimedNow(claimedIds, batch[nextIndex + 1])
         THEN UNCHANGED <<workers, writeOps, counts, sends, sendsInExec>>
       ELSE IF AcquireNeeded(limiterRate)
         THEN /\ workers' = [workers EXCEPT ![w] = [pc |-> "acquire", idx |-> nextIndex + 1]]
              /\ UNCHANGED <<writeOps, counts, sends, sendsInExec>>
       ELSE AfterAcquire(w, nextIndex + 1)
  /\ UNCHANGED <<contacts, dbVars, wf, batchIndex, attempts, phase, exitKind,
                 claimedIds, sawThroughput429, fbIndex, limiterRate,
                 adaptiveEnabled, thrVars, decreases, claimErrored, replay, faults,
                 stableChecks, stepLog, auxVars>>

\* limiter.acquire() resolves
WorkerAcquired(w) ==
  /\ wf = "batch" /\ phase = "workers"
  /\ workers[w].pc = "acquire"
  /\ AfterAcquire(w, workers[w].idx)
  /\ UNCHANGED <<contacts, dbVars, wf, batchIndex, attempts, phase, exitKind,
                 claimedIds, sawThroughput429, nextIndex, fbIndex, limiterRate,
                 adaptiveEnabled, thrVars, decreases, claimErrored, replay, faults,
                 stableChecks, stepLog, auxVars>>

\* the external call returns or throws: classification of the response
WorkerResponse(w) ==
  /\ wf = "batch" /\ phase = "workers"
  /\ workers[w].pc = "fetch"
  /\ \E r \in Responses :
       IF r # "throw" /\ SentResponse(r)
         THEN /\ writeOps' = PushWriteOp(writeOps, workers[w].idx, "sent", [NoOpts EXCEPT !.resp = r])
              /\ counts' = Bump(counts, "sent")
              /\ workers' = [workers EXCEPT ![w] = IdleWorker]
              /\ UNCHANGED sawThroughput429
       ELSE IF r # "throw" /\ adaptiveEnabled /\ errorCode(r) = ThroughputExceededCode
               /\ ~sawThroughput429
         THEN /\ sawThroughput429' = FlagBeforeAwait(sawThroughput429)
              /\ workers' = [workers EXCEPT ![w].pc = "decrease"]
              /\ UNCHANGED <<writeOps, counts>>
       ELSE IF r = "throw"
         THEN /\ writeOps' = PushWriteOp(writeOps, workers[w].idx, "failed", CatchOpts(r))
              /\ counts' = Bump(counts, "failed")
              /\ workers' = [workers EXCEPT ![w] = WorkerAfterCatch]
              /\ UNCHANGED sawThroughput429
       ELSE /\ writeOps' = PushWriteOp(writeOps, workers[w].idx, "failed",
                      [NoOpts EXCEPT !.resp = r, !.errorCode = errorCode(r),
                                     !.error = ErrorWithCode(r)])
            /\ counts' = Bump(counts, "failed")
            /\ workers' = [workers EXCEPT ![w] = IdleWorker]
            /\ UNCHANGED sawThroughput429
  /\ UNCHANGED <<contacts, dbVars, wf, batchIndex, attempts, phase, exitKind,
                 claimedIds, nextIndex, fbIndex, limiterRate, adaptiveEnabled,
                 thrVars, histVars, auxVars>>

\* limiter.updateRate(newRate): the refill rate of the running limiter
UpdateRate(rate, newRate) == newRate

LimiterRateKept(rate, update) == rate

\* the limiter of the step after a decrease: if (limiter) limiter.updateRate(...)
LimiterRateAfterDecrease(rate, update) ==
  IF rate # 0 THEN UpdateRate(rate, update.next.targetMps) ELSE rate

\* recordThroughputExceeded resolves (or throws into the per-contact catch);
\* the live limiter takes the decreased rate; the contact is recorded failed
WorkerDecreaseDone(w) ==
  /\ wf = "batch" /\ phase = "workers"
  /\ workers[w].pc = "decrease"
  /\ \/ LET update == RecordThroughputExceeded(thr, now) IN
          /\ thr' = update.next
          /\ limiterRate' = LimiterRateAfterDecrease(limiterRate, update)
          /\ decreases' = decreases + 1
          /\ writeOps' = PushWriteOp(writeOps, workers[w].idx, "failed",
                 [NoOpts EXCEPT !.resp = "err429", !.errorCode = ThroughputExceededCode,
                                !.error = ErrorWithCode("err429")])
          /\ workers' = [workers EXCEPT ![w] = IdleWorker]
     \/ /\ writeOps' = PushWriteOp(writeOps, workers[w].idx, "failed", CatchOpts("err429"))
        /\ workers' = [workers EXCEPT ![w] = WorkerAfterCatch]
        /\ UNCHANGED <<thr, limiterRate, decreases>>
  /\ counts' = Bump(counts, "failed")
  /\ UNCHANGED <<contacts, dbVars, wf, batchIndex, attempts, phase, exitKind,
                 claimedIds, sawThroughput429, nextIndex, fbIndex, adaptiveEnabled,
                 now, sends, sendsInExec, claimErrored, replay, faults, stableChecks, stepLog,
                 auxVars>>

AllWorkersDone == \A w \in 1..concurrency : workers[w].pc = "done"

\* ------------------------------------------------------------ persistence
\* after Promise.allSettled(workers): the bulk upsert of the write operations
BulkUpsert ==
  /\ wf = "batch" /\ phase = "workers"
  /\ AllWorkersDone
  /\ IF Len(writeOps) = 0
       THEN /\ phase' = "finally"
            /\ UNCHANGED <<rows, fbIndex>>
       ELSE \/ /\ ~DuplicateKeys(writeOps)
               /\ rows' = [id \in DOMAIN rows |->
                             IF id \in OpIds(writeOps)
                               THEN UpsertRow(rows[id], OpStatus(writeOps, id))
                               ELSE rows[id]]
               /\ phase' = "finally"
               /\ UNCHANGED fbIndex
            \/ /\ phase' = "fallback"     \* bulkErr
               /\ fbIndex' = 1
               /\ UNCHANGED rows
  /\ UNCHANGED <<contacts, campaign, wf, batchIndex, attempts, exitKind, claimedIds,
                 writeOps, counts, sawThroughput429, nextIndex, workers, limiterRate,
                 adaptiveEnabled, thrVars, histVars, auxVars>>

FallbackAbortsOnError(i, n, ok) == IF i = n \/ ~ok THEN "finally" ELSE "fallback"

\* the fallback loop after the write of operation i of n: on to the next
\* operation, whether or not the write went through
FallbackNext(i, n, ok) == IF i = n THEN "finally" ELSE "fallback"

\* one iteration of the fallback loop: updateContactStatus of one write operation
\* (a store error is not thrown by the query and is not looked at)
FallbackRow ==
  /\ wf = "batch" /\ phase = "fallback"
  /\ fbIndex <= Len(writeOps)
  /\ \E ok \in BOOLEAN :
       LET op == writeOps[fbIndex] IN
         /\ rows' = IF ok
                      THEN [rows EXCEPT ![op.cid] = UpdateContactStatusRow(@, op.status)]
                      ELSE rows
         /\ phase' = FallbackNext(fbIndex, Len(writeOps), ok)
  /\ fbIndex' = fbIndex + 1
  /\ UNCHANGED <<contacts, campaign, wf, batchIndex, attempts, exitKind, claimedIds,
                 writeOps, counts, sawThroughput429, nextIndex, workers, limiterRate,
                 adaptiveEnabled, thrVars, histVars, auxVars>>

\* ------------------------------------------------------------ step exits
\* the orchestrator re-executes a step that threw or crashed, up to Retries times
RetryStep ==
  /\ IF attempts < Retries
       THEN /\ attempts' = attempts + 1
            /\ phase' = "start"
            /\ wf' = wf
       ELSE /\ attempts' = attempts
            /\ phase' = "none"
            /\ wf' = "failed"
  /\ ResetStepNext

\* a step execution that went through persistence and the counter update
CompletedThroughCounters == phase = "stepdone" /\ exitKind = "none"

StableCheckDueDespiteSignal(enabled, saw) == enabled

\* the condition of the stable-batch check in the finally block
StableCheckDue(enabled, saw) == enabled /\ ~saw

\* finally block of the step: the stable-batch check, then the way out
Finally ==
  /\ wf = "batch" /\ phase = "finally"
  /\ IF StableCheckDue(adaptiveEnabled, sawThroughput429)
       THEN /\ \/ thr' = RecordStableBatch(thr, now).next
               \/ UNCHANGED thr                   \* recordStableBatch throws: traced
            /\ stableChecks' = stableChecks + 1
       ELSE UNCHANGED <<thr, stableChecks>>
  /\ IF exitKind = "throw"
       THEN /\ RetryStep
            /\ stepLog' = [events |-> Append(stepLog.events, BatchEndEvent(exitKind)),
                           exit |-> "throw", paused |-> FALSE]
            /\ UNCHANGED replay
       ELSE /\ phase' = IF exitKind \in {"return", "paused"} THEN "stepdone" ELSE "counters"
            /\ stepLog' = [events |-> Append(stepLog.events, BatchEndEvent(exitKind)),
                           exit |-> IF exitKind \in {"return", "paused"}
                                      THEN "return" ELSE "none",
                           paused |-> exitKind = "paused"]
            /\ UNCHANGED <<wf, attempts, stepVars, sendsInExec, decreases,
                           claimErrored, replay>>
  /\ UNCHANGED <<contacts, dbVars, batchIndex, adaptiveEnabled, now, sends, faults,
                 auxVars>>

\* db_update_campaign_counters: the deltas of the batch are added to the counters
UpdateCounters ==
  /\ wf = "batch" /\ phase = "counters"
  /\ \/ /\ campaign' = [campaign EXCEPT !.sent = @ + counts.sent,
                                        !.failed = @ + counts.failed,
                                        !.skipped = @ + counts.skipped]
        /\ phase' = "stepdone"
        /\ stepLog' = [stepLog EXCEPT !.exit = "return"]
        /\ UNCHANGED <<wf, attempts, stepVars, sendsInExec, decreases, claimErrored,
                       faults>>
     \/ /\ faults < MaxFaults             \* getById / updateStatus throws
        /\ faults' = faults + 1
        /\ RetryStep
        /\ stepLog' = [stepLog EXCEPT !.exit = "throw"]
        /\ UNCHANGED campaign
  /\ UNCHANGED <<contacts, rows, batchIndex, adaptiveEnabled, thrVars, sends,
                 replay, stableChecks, auxVars>>

StepCompletedBeforeCounters == phase \in {"counters", "stepdone"}

\* the step function of context.run has returned
StepCompleted == phase = "stepdone"

\* the orchestrator records the result of the step and moves to the next one
StepCheckpoint ==
  /\ wf = "batch" /\ StepCompleted
  /\ IF batchIndex + 1 < NumBatches(contacts)
       THEN /\ batchIndex' = batchIndex + 1
            /\ phase' = "start"
            /\ wf' = wf
       ELSE /\ batchIndex' = batchIndex
            /\ phase' = "none"
            /\ wf' = "complete"
  /\ attempts' = 0
  /\ ResetStepNext
  /\ replay' = NoReplay
  /\ UNCHANGED <<contacts, dbVars, adaptiveEnabled, thrVars, sends, faults, stableChecks, stepLog,
                 auxVars>>

\* the process running the step dies (or its result is lost) at any point;
\* the step is executed again from its beginning
StepCrash ==
  /\ wf = "batch" /\ phase # "none"
  /\ faults < MaxFaults
  /\ faults' = faults + 1
  /\ RetryStep
  /\ stepLog' = [stepLog EXCEPT !.exit = "crash"]
  /\ replay' = IF CompletedThroughCounters
                 THEN [on |-> TRUE, rows |-> rows, counters |-> Counters(campaign),
                       sends |-> sends]
                 ELSE replay
  /\ UNCHANGED <<contacts, dbVars, batchIndex, adaptiveEnabled, thrVars, sends, stableChecks,
                 auxVars>>

FinalStatusNoRecipientsGuard(c) ==
  IF (c.failed + c.skipped) = c.recipients THEN "failed" ELSE "completed"

\* step complete-campaign
FinalStatus(c) ==
  IF (c.failed + c.skipped) = c.recipients /\ c.recipients > 0 THEN "failed" ELSE "completed"

CompleteCampaign ==
  /\ wf = "complete"
  /\ campaign' = [campaign EXCEPT !.status = FinalStatus(campaign), !.completedAt = TS]
  /\ wf' = "done"
  /\ UNCHANGED <<contacts, rows, batchIndex, attempts, phase, stepVars,
                 adaptiveEnabled, thrVars, histVars, auxVars>>

\* the campaign is paused from outside while it is being sent
PauseCampaign ==
  /\ wf = "batch"
  /\ campaign.status = "sending"
  /\ campaign' = [campaign EXCEPT !.status = "paused"]
  /\ UNCHANGED <<contacts, rows, wf, batchIndex, attempts, phase, stepVars,
                 adaptiveEnabled, thrVars, histVars, auxVars>>

Next ==
  \/ CheckPayload
  \/ InitCampaign
  \/ BatchStart
  \/ BatchClaim
  \/ \E w \in 1..concurrency : WorkerPull(w)
  \/ \E w \in 1..concurrency : WorkerAcquired(w)
  \/ \E w \in 1..concurrency : WorkerResponse(w)
  \/ \E w \in 1..concurrency : WorkerDecreaseDone(w)
  \/ BulkUpsert
  \/ FallbackRow
  \/ Finally
  \/ UpdateCounters
  \/ StepCheckpoint
  \/ StepCrash
  \/ CompleteCampaign
  \/ PauseCampaign

Spec == Init /\ [][Next]_vars

\* the steps the host and the program take when nothing fails: every awaited
\* call returns or times out, and the host invokes the next step
Progress ==
  \/ CheckPayload
  \/ InitCampaign
  \/ BatchStart
  \/ BatchClaim
  \/ \E w \in 1..concurrency : WorkerPull(w)
  \/ \E w \in 1..concurrency : WorkerAcquired(w)
  \/ \E w \in 1..concurrency : WorkerResponse(w)
  \/ \E w \in 1..concurrency : WorkerDecreaseDone(w)
  \/ BulkUpsert
  \/ FallbackRow
  \/ Finally
  \/ UpdateCounters
  \/ StepCheckpoint
  \/ CompleteCampaign

\* the run under a host that keeps executing it
SpecLive == Init /\ [][Next]_vars /\ WF_vars(Progress)

\* ------------------------------------------------------------------------
\* Concurrent and duplicate invocations of the claim on one campaign.
\* Each invocation is one conditional UPDATE ... RETURNING statement, which the
\* store executes atomically; the result persister moves claimed rows on
\* concurrently.

NoWorkflow ==
  /\ campaign = [status |-> "sending", sent |-> 0, failed |-> 0, skipped |-> 0,
                 recipients |-> Len(contacts), completedAt |-> NULL]
  /\ wf = "off"
  /\ batchIndex = 0
  /\ attempts = 0
  /\ faults = 0
  /\ phase = "none"
  /\ ResetStep
  /\ sends = [id \in DbIds |-> 0]
  /\ sendsInExec = 0
  /\ decreases = 0
  /\ claimErrored = FALSE
  /\ replay = NoReplay
  /\ stableChecks = 0
  /\ stepLog = NoStepLog

InitClaim ==
  /\ contacts \in {p \in Payloads : missingContactIds(p) = {}}
  /\ rows = [id \in DbIds |-> PendingRow("none")]
  /\ inv \in [1..NumInvocations ->
        {[contacts |-> Batch(contacts, i), pc |-> "called", claimedIds |-> {}] :
           i \in 0..(NumBatches(contacts) - 1)}]
  /\ everLeft = {}
  /\ camps = <<>>
  /\ profiles = <<>>
  /\ diag = <<>>
  /\ sentRow = <<>>
  /\ lastSent = <<>>
  /\ inbox = <<>>
  /\ auth = <<>>
  /\ variant = <<>>
  /\ stats = <<>>
  /\ adaptiveEnabled = FALSE
  /\ thr = InitialThrottle
  /\ now = 0
  /\ NoWorkflow

LeftPending(before, after) ==
  {id \in DOMAIN before : before[id].status = "pending" /\ after[id].status # "pending"}

\* invocation k of bulkClaimPendingForSend runs its update and returns
ClaimInvoke(k) ==
  /\ inv[k].pc = "called"
  /\ \E storeOk \in BOOLEAN :
       LET res == BulkClaimPendingForSend(rows, inv[k].contacts, storeOk) IN
         /\ rows' = res.rows
         /\ inv' = [inv EXCEPT ![k].pc = "returned", ![k].claimedIds = res.claimedIds]
         /\ everLeft' = everLeft \cup LeftPending(rows, res.rows)
  /\ UNCHANGED <<contacts, campaign, wf, batchIndex, attempts, phase, stepVars,
                 adaptiveEnabled, thrVars, histVars, camps, profiles, diag,
                 sentRow, lastSent, inbox, auth, variant, stats>>

\* the result persister writes the outcome of a claimed row
ClaimedRowPersisted(id) ==
  /\ rows[id].status = "sending"
  /\ \E status \in {"sent", "failed", "skipped"} :
       rows' = [rows EXCEPT ![id] = UpsertRow(@, status)]
  /\ everLeft' = everLeft \cup LeftPending(rows, rows')
  /\ UNCHANGED <<contacts, campaign, wf, batchIndex, attempts, phase, stepVars,
                 adaptiveEnabled, thrVars, histVars, inv, camps, profiles, diag,
                 sentRow, lastSent, inbox, auth, variant, stats>>

NextClaim ==
  \/ \E k \in 1..NumInvocations : ClaimInvoke(k)
  \/ \E id \in DbIds : ClaimedRowPersisted(id)

SpecClaim == InitClaim /\ [][NextClaim]_vars

\* ------------------------------------------------------------------------
\* Several campaigns whose send-batch steps signal the throttle state of one
\* phone number, with time passing.

InitThrottle ==
  /\ contacts = <<>>
  /\ rows = [id \in DbIds |-> PendingRow("none")]
  /\ inv = <<>>
  /\ everLeft = {}
  /\ profiles = <<>>
  /\ diag = <<>>
  /\ sentRow = <<>>
  /\ lastSent = <<>>
  /\ inbox = <<>>
  /\ auth = <<>>
  /\ variant = <<>>
  /\ stats = <<>>
  /\ camps = [c \in 1..NumCampaigns |-> [pc |-> "idle", sawThroughput429 |-> FALSE]]
  /\ adaptiveEnabled = TRUE
  /\ \E m \in MinMps..MaxMps :
       thr = [targetMps |-> m, cooldownUntil |-> 0, lastIncreaseAt |-> Never]
  /\ now = 0
  /\ NoWorkflow

\* a send-batch step of campaign c starts: the flag is cleared
CampaignBatchStart(c) ==
  /\ camps[c].pc = "idle"
  /\ camps' = [camps EXCEPT ![c] = [pc |-> "batch", sawThroughput429 |-> FALSE]]
  /\ UNCHANGED <<contacts, dbVars, wf, batchIndex, attempts, phase, stepVars,
                 adaptiveEnabled, thrVars, histVars, inv, everLeft, profiles, diag,
                 sentRow, lastSent, inbox, auth, variant, stats>>

\* a recipient of the running batch of c gets the throughput-exceeded code
CampaignThroughputExceeded(c) ==
  /\ camps[c].pc = "batch"
  /\ IF adaptiveEnabled /\ ~camps[c].sawThroughput429
       THEN /\ camps' = [camps EXCEPT ![c].sawThroughput429 = FlagBeforeAwait(@)]
            /\ thr' = RecordThroughputExceeded(thr, now).next
       ELSE UNCHANGED <<camps, thr>>
  /\ UNCHANGED <<contacts, dbVars, wf, batchIndex, attempts, phase, stepVars,
                 adaptiveEnabled, now, histVars, inv, everLeft, profiles, diag,
                 sentRow, lastSent, inbox, auth, variant, stats>>

\* the finally block of the batch of c: the stable-batch check
CampaignBatchEnd(c) ==
  /\ camps[c].pc = "batch"
  /\ camps' = [camps EXCEPT ![c].pc = "idle"]
  /\ IF adaptiveEnabled /\ ~camps[c].sawThroughput429
       THEN thr' = RecordStableBatch(thr, now).next
       ELSE UNCHANGED thr
  /\ UNCHANGED <<contacts, dbVars, wf, batchIndex, attempts, phase, stepVars,
                 adaptiveEnabled, now, histVars, inv, everLeft, profiles, diag,
                 sentRow, lastSent, inbox, auth, variant, stats>>

Tick ==
  /\ now < MaxTime
  /\ now' = now + 1
  /\ UNCHANGED <<contacts, dbVars, wf, batchIndex, attempts, phase, stepVars,
                 adaptiveEnabled, thr, histVars, auxVars>>

NextThrottle ==
  \/ \E c \in 1..NumCampaigns : CampaignBatchStart(c)
  \/ \E c \in 1..NumCampaigns : CampaignThroughputExceeded(c)
  \/ \E c \in 1..NumCampaigns : CampaignBatchEnd(c)
  \/ Tick

SpecThrottle == InitThrottle /\ [][NextThrottle]_vars

\* ------------------------------------------------------------------------
\* Result persistence of one send-batch step, from the join of the worker pool
\* on: the rows claimed by the step may carry the terminal timestamp of an
\* earlier run, and the write operations hold one outcome per entry of the
\* batch in any completion order.

Outcomes(cs) ==
  {ops \in [1..Len(cs) ->
              [idx : 1..Len(cs), cid : {cs[i] : i \in 1..Len(cs)},
               status : {"sent", "failed", "skipped"}, errorCode : {NoCode},
               resp : {NoResponse}, skipCode : {NULL}, skipReason : {NULL},
               error : {NULL}]] :
     /\ \A i \in 1..Len(cs) : ops[i].cid = cs[ops[i].idx]
     /\ \A i, j \in 1..Len(cs) : ops[i].idx = ops[j].idx => i = j}

CountsOf(ops) ==
  [k \in {"sent", "failed", "skipped"} |->
     Cardinality({i \in 1..Len(ops) : ops[i].status = k})]

InitPersist ==
  /\ contacts \in {p \in Payloads : missingContactIds(p) = {} /\ Len(p) <= BATCH_SIZE}
  /\ \E stale \in [DbIds -> StaleKinds] :
       rows = [id \in DbIds |->
                 IF id \in ClaimIds(contacts)
                   THEN [PendingRow(stale[id]) EXCEPT !.status = "sending"]
                   ELSE PendingRow(stale[id])]
  /\ campaign = [status |-> "sending", sent |-> 0, failed |-> 0, skipped |-> 0,
                 recipients |-> Len(contacts), completedAt |-> NULL]
  /\ wf = "batch"
  /\ batchIndex = 0
  /\ attempts = 0
  /\ faults = 0
  /\ phase = "workers"
  /\ exitKind = "none"
  /\ claimedIds = ClaimIds(contacts)
  /\ writeOps \in Outcomes(contacts)
  /\ counts = CountsOf(writeOps)
  /\ sawThroughput429 = FALSE
  /\ nextIndex = Len(contacts) + workerCount
  /\ workers = NoWorkers
  /\ fbIndex = 0
  /\ limiterRate = 0
  /\ adaptiveEnabled = FALSE
  /\ thr = InitialThrottle
  /\ now = 0
  /\ sends = [id \in DbIds |-> 0]
  /\ sendsInExec = 0
  /\ decreases = 0
  /\ claimErrored = FALSE
  /\ replay = NoReplay
  /\ stableChecks = 0
  /\ stepLog = StartedStepLog
  /\ AuxIdle

NextPersist ==
  \/ BulkUpsert
  \/ FallbackRow

SpecPersist == InitPersist /\ [][NextPersist]_vars

\* ------------------------------------------------------------------------
\* One send-batch step from the bulk claim to the end of its finally block,
\* over a batch whose contact data are fixed in advance. sendConcurrency is
\* read by each step execution: the pool starts with any number of workers up
\* to the configured one.

InitPool ==
  /\ contacts \in PoolPayloads
  /\ profiles \in [1..Len(contacts) -> Profiles]
  /\ rows = [id \in DbIds |->
               IF id \in ClaimIds(contacts)
                 THEN [PendingRow("none") EXCEPT !.status = "sending"]
                 ELSE PendingRow("none")]
  /\ campaign = [status |-> "sending", sent |-> 0, failed |-> 0, skipped |-> 0,
                 recipients |-> Len(contacts), completedAt |-> NULL]
  /\ wf = "batch"
  /\ batchIndex = 0
  /\ attempts = 0
  /\ faults = 0
  /\ phase = "workers"
  /\ exitKind = "none"
  /\ claimedIds = ClaimIds(contacts)
  /\ writeOps = <<>>
  /\ counts = ZeroCounts
  /\ sawThroughput429 = FALSE
  /\ nextIndex = 0
  /\ \E c \in MinConcurrency..concurrency :
       workers = [w \in 1..concurrency |->
                    IF w <= Min2(c, Len(contacts)) THEN IdleWorker ELSE DoneWorker]
  /\ fbIndex = 0
  /\ adaptiveEnabled \in BOOLEAN
  /\ thr = InitialThrottle
  /\ limiterRate = IF adaptiveEnabled THEN thr.targetMps ELSE 0
  /\ now = 0
  /\ sends = [id \in DbIds |-> 0]
  /\ sendsInExec = 0
  /\ decreases = 0
  /\ claimErrored = FALSE
  /\ replay = NoReplay
  /\ stableChecks = 0
  /\ stepLog = StartedStepLog
  /\ inv = <<>>
  /\ everLeft = {}
  /\ camps = <<>>
  /\ diag = <<>>
  /\ sentRow = <<>>
  /\ lastSent = <<>>
  /\ inbox = <<>>
  /\ auth = <<>>
  /\ variant = <<>>
  /\ stats = <<>>

NextPool ==
  \/ \E w \in 1..concurrency : WorkerPull(w)
  \/ \E w \in 1..concurrency : WorkerAcquired(w)
  \/ \E w \in 1..concurrency : WorkerResponse(w)
  \/ \E w \in 1..concurrency : WorkerDecreaseDone(w)
  \/ BulkUpsert
  \/ FallbackRow
  \/ Finally

SpecPool == InitPool /\ [][NextPool]_vars

\* ------------------------------------------------------------------------
\* Diagnostic columns of a failed recipient: the texts of the provider's error
\* carried by the write operation, and the columns each persistence path
\* stores for them.

TitleCap == 200
DetailsCap == 800
FbtraceCap == 200
HrefCap == 400

MaxTextLen == 1000

\* the one-character truncation marker
TruncationMarker == "ellipsis"

\* a diagnostic the write operation does not carry
Undefined == <<"undefined">>

\* runs of whitespace become one space; a leading run disappears
CollapseWhitespace(s) ==
  LET Keep(p) == ~(s[p] = Space /\ (p = 1 \/ s[p - 1] = Space))
      kept == SelectSeq([i \in 1..Len(s) |-> i], Keep)
  IN  [k \in 1..Len(kept) |-> s[kept[k]]]

NormalizeMetaErrorTextForStorage(s, max) ==
  LET t == Trim(CollapseWhitespace(s))
  IN  IF Len(t) <= max
        THEN t
        ELSE TrimRight(SubSeq(t, 1, max - 1)) \o <<TruncationMarker>>

TextShapes == {"plain", "spaced"}

Text(n, shape) ==
  [i \in 1..n |-> IF shape = "spaced" /\ (i <= 2 \/ i % 3 = 0) THEN Space ELSE "x"]

\* a diagnostic the provider's error may carry: absent, or a text around the cap
Diagnostics(cap) ==
  {Undefined} \cup {Text(n, sh) : n \in {1, cap, cap + 1, MaxTextLen}, sh \in TextShapes}

NoFailureFields ==
  [failure_title |-> Undefined, failure_details |-> Undefined,
   failure_fbtrace_id |-> Undefined, failure_href |-> Undefined]

StoredText(text, cap) ==
  IF text # Undefined THEN NormalizeMetaErrorTextForStorage(text, cap) ELSE Undefined

UpsertRowFailureFieldsRaw(opts) ==
  [failure_title |-> opts.errorTitle, failure_details |-> opts.errorDetails,
   failure_fbtrace_id |-> opts.errorFbtraceId, failure_href |-> opts.errorHref]

\* the failed branch of the rows built for the bulk upsert
UpsertRowFailureFields(opts) ==
  [failure_title |-> StoredText(opts.errorTitle, TitleCap),
   failure_details |-> StoredText(opts.errorDetails, DetailsCap),
   failure_fbtrace_id |-> StoredText(opts.errorFbtraceId, FbtraceCap),
   failure_href |-> StoredText(opts.errorHref, HrefCap)]

\* the failed branch of updateContactStatus, used by the per-row fallback
UpdateFailureFields(opts) ==
  [failure_title |-> StoredText(opts.errorTitle, TitleCap),
   failure_details |-> StoredText(opts.errorDetails, DetailsCap),
   failure_fbtrace_id |-> StoredText(opts.errorFbtraceId, FbtraceCap),
   failure_href |-> StoredText(opts.errorHref, HrefCap)]

diagOthers == <<contacts, dbVars, wf, batchIndex, attempts, phase, stepVars,
                adaptiveEnabled, thrVars, histVars, inv, everLeft, camps, profiles,
                sentRow, lastSent, inbox, auth, variant, stats>>

UpsertFailedRow ==
  /\ diag.path = "none"
  /\ diag' = [diag EXCEPT !.path = "bulk",
                          !.stored = UpsertRowFailureFields(diag.opts)]
  /\ UNCHANGED diagOthers

UpdateFailedContactStatus ==
  /\ diag.path = "none"
  /\ diag' = [diag EXCEPT !.path = "fallback",
                          !.stored = UpdateFailureFields(diag.opts)]
  /\ UNCHANGED diagOthers

InitDiagnostics ==
  /\ contacts = <<>>
  /\ rows = [id \in DbIds |-> PendingRow("none")]
  /\ campaign = [status |-> "sending", sent |-> 0, failed |-> 0, skipped |-> 0,
                 recipients |-> 0, completedAt |-> NULL]
  /\ wf = "batch"
  /\ batchIndex = 0
  /\ attempts = 0
  /\ faults = 0
  /\ phase = "persist"
  /\ exitKind = "none"
  /\ claimedIds = {}
  /\ writeOps = <<>>
  /\ counts = ZeroCounts
  /\ sawThroughput429 = FALSE
  /\ nextIndex = 0
  /\ workers = NoWorkers
  /\ fbIndex = 0
  /\ limiterRate = 0
  /\ adaptiveEnabled = FALSE
  /\ thr = InitialThrottle
  /\ now = 0
  /\ sends = [id \in DbIds |-> 0]
  /\ sendsInExec = 0
  /\ decreases = 0
  /\ claimErrored = FALSE
  /\ replay = NoReplay
  /\ stableChecks = 0
  /\ stepLog = NoStepLog
  /\ inv = <<>>
  /\ everLeft = {}
  /\ camps = <<>>
  /\ profiles = <<>>
  /\ sentRow = <<>>
  /\ lastSent = <<>>
  /\ inbox = <<>>
  /\ auth = <<>>
  /\ variant = <<>>
  /\ stats = <<>>
  /\ \E opts \in [errorTitle : Diagnostics(TitleCap),
                  errorDetails : Diagnostics(DetailsCap),
                  errorFbtraceId : Diagnostics(FbtraceCap),
                  errorHref : Diagnostics(HrefCap)] :
       diag = [opts |-> opts, path |-> "none", stored |-> NoFailureFields]

NextDiagnostics ==
  \/ UpsertFailedRow
  \/ UpdateFailedContactStatus

SpecDiagnostics == InitDiagnostics /\ [][NextDiagnostics]_vars

\* ------------------------------------------------------------------------
\* All the columns of one recipient row that is persisted as sent: the row was
\* claimed for this run and may carry the failure and skip columns of an
\* earlier failed or skipped attempt.

FailureFields ==
  {"error", "failure_code", "failure_reason", "failure_title", "failure_details",
   "failure_fbtrace_id", "failure_subcode", "failure_href", "failed_at"}

SkipFields == {"skip_code", "skip_reason", "skipped_at"}

RowFields == {"status", "sent_at", "message_id"} \cup FailureFields \cup SkipFields

Stale == "stale"

\* rows in status sending with any of the columns of an earlier attempt
ClaimedRows ==
  {[f \in RowFields |->
      IF f = "status" THEN "sending"
      ELSE IF f \in {"sent_at", "message_id"} THEN NULL
      ELSE old[f]] : old \in [FailureFields \cup SkipFields -> {NULL, Stale}]}

\* the columns of the upsert row of a sent write operation
SentUpsertColumns ==
  [f \in RowFields |->
     IF f = "status" THEN "sent"
     ELSE IF f = "sent_at" THEN TS
     ELSE IF f = "message_id" THEN "wamid"
     ELSE NULL]

\* the columns of the update object of updateContactStatus for sent
SentUpdateColumns ==
  [f \in {"status", "sent_at", "message_id", "error", "skip_code", "skip_reason",
          "skipped_at"} |->
     IF f = "status" THEN "sent"
     ELSE IF f = "sent_at" THEN TS
     ELSE IF f = "message_id" THEN "wamid"
     ELSE NULL]

\* the store writes the given columns and leaves the others as they are
ApplyColumns(row, cols) ==
  [f \in DOMAIN row |-> IF f \in DOMAIN cols THEN cols[f] ELSE row[f]]

sentRowOthers == <<contacts, dbVars, wf, batchIndex, attempts, phase, stepVars,
                   adaptiveEnabled, thrVars, histVars, inv, everLeft, camps, profiles,
                   diag, lastSent, inbox, auth, variant, stats>>

UpsertSentRow ==
  /\ sentRow.path = "none"
  /\ sentRow' = [path |-> "bulk", row |-> ApplyColumns(sentRow.row, SentUpsertColumns)]
  /\ UNCHANGED sentRowOthers

UpdateSentContactStatus ==
  /\ sentRow.path = "none"
  /\ sentRow' = [path |-> "fallback", row |-> ApplyColumns(sentRow.row, SentUpdateColumns)]
  /\ UNCHANGED sentRowOthers

InitSentRow ==
  /\ contacts = <<>>
  /\ rows = [id \in DbIds |-> PendingRow("none")]
  /\ NoWorkflow
  /\ adaptiveEnabled = FALSE
  /\ thr = InitialThrottle
  /\ now = 0
  /\ inv = <<>>
  /\ everLeft = {}
  /\ camps = <<>>
  /\ profiles = <<>>
  /\ diag = <<>>
  /\ lastSent = <<>>
  /\ inbox = <<>>
  /\ auth = <<>>
  /\ variant = <<>>
  /\ stats = <<>>
  /\ \E r \in ClaimedRows : sentRow = [path |-> "none", row |-> r]

NextSentRow ==
  \/ UpsertSentRow
  \/ UpdateSentContactStatus

SpecSentRow == InitSentRow /\ [][NextSentRow]_vars

\* ------------------------------------------------------------------------
\* lastSentAt of the campaign over the send-batch steps of a run. Steps may
\* run on different hosts, so the time a step stamps is any time.

MaxStamp == 4
MaxSteps == 3

\* a lastSentAt / lastSentAtInBatch that is not set
NoStamp == 0

Stamps == 1..MaxStamp

SafeLastSentAtOverwrites(existing, candidate) ==
  IF candidate = NoStamp THEN existing ELSE candidate

\* safeLastSentAt of the counter update
SafeLastSentAt(existing, candidate) ==
  IF candidate = NoStamp THEN existing
  ELSE IF existing = NoStamp THEN candidate
  ELSE IF candidate > existing THEN candidate ELSE existing

lastSentOthers == <<contacts, dbVars, wf, batchIndex, attempts, phase, stepVars,
                    adaptiveEnabled, thrVars, histVars, inv, everLeft, camps, profiles,
                    diag, sentRow, inbox, auth, variant, stats>>

\* a step execution starts: lastSentAtInBatch is null
LastSentStepStart ==
  /\ lastSent.pc = "idle"
  /\ lastSent.steps < MaxSteps
  /\ lastSent' = [lastSent EXCEPT !.pc = "batch", !.candidate = NoStamp]
  /\ UNCHANGED lastSentOthers

\* a recipient of the batch is classified sent
LastSentMessageSent ==
  /\ lastSent.pc = "batch"
  /\ \E t \in Stamps : lastSent' = [lastSent EXCEPT !.candidate = t]
  /\ UNCHANGED lastSentOthers

\* the step returns at its pause check or after a claim of zero rows (a replay)
LastSentEarlyReturn ==
  /\ lastSent.pc = "batch"
  /\ lastSent.candidate = NoStamp
  /\ lastSent' = [lastSent EXCEPT !.pc = "idle", !.steps = @ + 1]
  /\ UNCHANGED lastSentOthers

\* the counter update of the step
LastSentUpdateCounters ==
  /\ lastSent.pc = "batch"
  /\ lastSent' = [lastSent EXCEPT !.pc = "idle", !.steps = @ + 1,
                                  !.stored = SafeLastSentAt(@, lastSent.candidate)]
  /\ UNCHANGED lastSentOthers

InitLastSent ==
  /\ contacts = <<>>
  /\ rows = [id \in DbIds |-> PendingRow("none")]
  /\ NoWorkflow
  /\ adaptiveEnabled = FALSE
  /\ thr = InitialThrottle
  /\ now = 0
  /\ inv = <<>>
  /\ everLeft = {}
  /\ camps = <<>>
  /\ profiles = <<>>
  /\ diag = <<>>
  /\ sentRow = <<>>
  /\ inbox = <<>>
  /\ auth = <<>>
  /\ variant = <<>>
  /\ stats = <<>>
  /\ \E t \in {NoStamp} \cup Stamps :     \* a resend starts from the time of the earlier run
       lastSent = [stored |-> t, candidate |-> NoStamp, pc |-> "idle", steps |-> 0]

NextLastSent ==
  \/ LastSentStepStart
  \/ LastSentMessageSent
  \/ LastSentEarlyReturn
  \/ LastSentUpdateCounters

SpecLastSent == InitLastSent /\ [][NextLastSent]_vars

\* ------------------------------------------------------------------------
\* GET /api/campaigns/[id]/messages: the aggregated stats of one request. The
\* count queries are issued together and answered by the store one by one,
\* while delivery webhooks advance the rows of the campaign.

MaxMessages == 2

MessageIds == 1..MaxMessages

\* campaign_contacts.status
MessageStatuses == {"pending", "sending", "sent", "delivered", "read", "skipped", "failed"}

StatQueries == {"total", "pending", "sent", "delivered", "read", "skipped", "failed"}

SentStatusesOnlySent == {"sent"}

\* "Enviado" includes the delivered and the read rows
SentStatuses == {"sent", "delivered", "read"}

\* delivered includes the read rows
DeliveredStatuses == {"delivered", "read"}

\* the status filter of each count query
QueryStatuses(q) ==
  CASE q = "total" -> MessageStatuses
    [] q = "pending" -> {"pending", "sending"}
    [] q = "sent" -> SentStatuses
    [] q = "delivered" -> DeliveredStatuses
    [] q = "read" -> {"read"}
    [] q = "skipped" -> {"skipped"}
    [] q = "failed" -> {"failed"}

\* select('*', { count: 'exact', head: true }) under a status filter
CountRows(rws, statuses) == Cardinality({m \in DOMAIN rws : rws[m] \in statuses})

\* count of a query that was not answered yet
NoCount == 0 - 1

statsOthers == <<contacts, dbVars, wf, batchIndex, attempts, phase, stepVars,
                 adaptiveEnabled, thrVars, histVars, inv, everLeft, camps, profiles,
                 diag, sentRow, lastSent, inbox, auth, variant>>

\* the store answers one of the count queries
StatsQuery(q) ==
  /\ q \in stats.pending
  /\ stats' = [stats EXCEPT !.pending = @ \ {q},
                            !.count[q] = CountRows(stats.rows, QueryStatuses(q))]
  /\ UNCHANGED statsOthers

\* Promise.all resolves: aggregatedStats goes into the response
StatsRespond ==
  /\ stats.pending = {}
  /\ ~stats.done
  /\ stats' = [stats EXCEPT !.done = TRUE]
  /\ UNCHANGED statsOthers

\* a status webhook advances a row: sent -> delivered -> read
MessageAdvance(m) ==
  /\ ~stats.done
  /\ stats.rows[m] \in {"sent", "delivered"}
  /\ stats' = [stats EXCEPT !.rows[m] = IF @ = "sent" THEN "delivered" ELSE "read",
                            !.changed = TRUE]
  /\ UNCHANGED statsOthers

InitStats ==
  /\ contacts = <<>>
  /\ rows = [id \in DbIds |-> PendingRow("none")]
  /\ NoWorkflow
  /\ adaptiveEnabled = FALSE
  /\ thr = InitialThrottle
  /\ now = 0
  /\ inv = <<>>
  /\ everLeft = {}
  /\ camps = <<>>
  /\ profiles = <<>>
  /\ diag = <<>>
  /\ sentRow = <<>>
  /\ lastSent = <<>>
  /\ inbox = <<>>
  /\ auth = <<>>
  /\ variant = <<>>
  /\ \E rws \in [MessageIds -> MessageStatuses] :
       stats = [rows |-> rws, pending |-> StatQueries,
                count |-> [q \in StatQueries |-> NoCount],
                changed |-> FALSE, done |-> FALSE]

NextStats ==
  \/ \E q \in StatQueries : StatsQuery(q)
  \/ StatsRespond
  \/ \E m \in MessageIds : MessageAdvance(m)

SpecStats == InitStats /\ [][NextStats]_vars

\* ------------------------------------------------------------------------
\* The workflow with a claim per contact: in its send-batch step every contact
\* of the batch is prechecked, then claimed (pending -> sending), then sent to,
\* and its row is written at once; the counters are added after the loop.
\* A completed step is executed once more (its result was not recorded).

MaxVariantContacts == 2

VariantIds == 1..MaxVariantContacts

VariantNoStamp == 0

\* a row of campaign_contacts: its status and the time of its last write
VariantPendingRow == [status |-> "pending", at |-> VariantNoStamp]

\* claimPendingForSend: conditional update of one row, false on a store error
VariantClaim(row, storeOk) == storeOk /\ row.status = "pending"

\* updateContactStatus: update by contact_id, whatever the status of the row
VariantUpdateContactStatus(row, status, t) == [status |-> status, at |-> t]

VariantOutcomes == {"sent", "failed", "exception"}

variantOthers == <<contacts, dbVars, wf, batchIndex, attempts, phase, stepVars,
                   adaptiveEnabled, thrVars, histVars, inv, everLeft, camps, profiles,
                   diag, sentRow, lastSent, inbox, auth, stats>>

\* the step function starts: the pause check
VariantStepStart ==
  /\ variant.pc = "start"
  /\ variant' = [variant EXCEPT !.pc = IF variant.paused THEN "done" ELSE "loop",
                                !.idx = 1, !.counts = ZeroCounts]
  /\ UNCHANGED variantOthers

\* one iteration of the loop over the batch
VariantContact ==
  /\ variant.pc = "loop"
  /\ variant.idx <= MaxVariantContacts
  /\ LET i == variant.idx
         row == variant.rows[i]
         t == variant.exec
     IN \E storeOk \in BOOLEAN, outcome \in VariantOutcomes :
          IF ~variant.precheckOk[i]
            THEN variant' = [variant EXCEPT
                   !.rows[i] = VariantUpdateContactStatus(row, "skipped", t),
                   !.counts = Bump(@, "skipped"),
                   !.idx = i + 1]
          ELSE IF ~VariantClaim(row, storeOk)
            THEN variant' = [variant EXCEPT !.idx = i + 1]
          ELSE variant' = [variant EXCEPT
                   !.rows[i] = VariantUpdateContactStatus(
                                 row, IF outcome = "sent" THEN "sent" ELSE "failed", t),
                   !.counts = Bump(@, IF outcome = "sent" THEN "sent" ELSE "failed"),
                   !.sends[i] = @ + 1,
                   !.idx = i + 1]
  /\ UNCHANGED variantOthers

\* db_update_campaign_counters after the loop, then the step returns
VariantUpdateCounters ==
  /\ variant.pc = "loop"
  /\ variant.idx > MaxVariantContacts
  /\ variant' = [variant EXCEPT
       !.counters = [sent |-> @.sent + variant.counts.sent,
                     failed |-> @.failed + variant.counts.failed,
                     skipped |-> @.skipped + variant.counts.skipped],
       !.pc = "done"]
  /\ UNCHANGED variantOthers

\* the completed step is executed again from its beginning
VariantReplay ==
  /\ variant.pc = "done"
  /\ variant.exec = 1
  /\ variant' = [variant EXCEPT !.pc = "start", !.exec = 2,
                                !.before = [rows |-> variant.rows,
                                            counters |-> variant.counters]]
  /\ UNCHANGED variantOthers

InitVariant ==
  /\ contacts = <<>>
  /\ rows = [id \in DbIds |-> PendingRow("none")]
  /\ NoWorkflow
  /\ adaptiveEnabled = FALSE
  /\ thr = InitialThrottle
  /\ now = 0
  /\ inv = <<>>
  /\ everLeft = {}
  /\ camps = <<>>
  /\ profiles = <<>>
  /\ diag = <<>>
  /\ sentRow = <<>>
  /\ lastSent = <<>>
  /\ inbox = <<>>
  /\ auth = <<>>
  /\ stats = <<>>
  /\ \E ok \in [VariantIds -> BOOLEAN], paused \in BOOLEAN :
       variant = [rows |-> [i \in VariantIds |-> VariantPendingRow],
                  precheckOk |-> ok,
                  paused |-> paused,
                  counters |-> ZeroCounts,
                  counts |-> ZeroCounts,
                  sends |-> [i \in VariantIds |-> 0],
                  idx |-> 1,
                  pc |-> "start",
                  exec |-> 1,
                  before |-> [rows |-> [i \in VariantIds |-> VariantPendingRow],
                              counters |-> ZeroCounts]]

NextVariant ==
  \/ VariantStepStart
  \/ VariantContact
  \/ VariantUpdateCounters
  \/ VariantReplay

SpecVariant == InitVariant /\ [][NextVariant]_vars

\* ------------------------------------------------------------------------
\* loginUser of src/lib/user-auth.ts: concurrent calls against the single
\* login_attempts setting. Every await of a call is a step of its own.

NumLoginCalls == 2
MaxWrongEvaluated == 7

MAX_LOGIN_ATTEMPTS == 5
LOCKOUT_DURATION == 15 * 60 * 1000

LoginCalls == 1..NumLoginCalls

\* instants at which calls are made (ms): the limit of the lockout and around it
LoginTimes == <<0, LOCKOUT_DURATION, LOCKOUT_DURATION + 1, 2 * LOCKOUT_DURATION + 2>>

\* getSetting('login_attempts') found no row
NoSetting == [count |-> 0, updated_at |-> 0, present |-> FALSE]

IdleCall == [pc |-> "idle", valid |-> FALSE, read |-> 0, result |-> "none"]

\* the lockout period has passed since the setting was last written
LockoutExpired(setting, t) == t - setting.updated_at > LOCKOUT_DURATION

\* checkRateLimiting on a setting whose period has not passed
IsLocked(setting) == setting.present /\ setting.count >= MAX_LOGIN_ATTEMPTS

authOthers == <<contacts, dbVars, wf, batchIndex, attempts, phase, stepVars,
                adaptiveEnabled, thrVars, histVars, inv, everLeft, camps, profiles,
                diag, sentRow, lastSent, inbox, variant, stats>>

\* loginUser starts: checkRateLimiting reads the setting
LoginCheck(c) ==
  /\ auth.calls[c].pc = "idle"
  /\ \E valid \in BOOLEAN :
       LET call == [IdleCall EXCEPT !.valid = valid] IN
         IF ~auth.setting.present
           THEN auth' = [auth EXCEPT !.calls[c] = [call EXCEPT !.pc = "compare"]]
         ELSE IF LockoutExpired(auth.setting, LoginTimes[auth.now])
           THEN auth' = [auth EXCEPT !.calls[c] = [call EXCEPT !.pc = "clearExpired"]]
         ELSE IF IsLocked(auth.setting)
           THEN auth' = [auth EXCEPT !.calls[c] = [call EXCEPT !.result = "locked"]]
         ELSE auth' = [auth EXCEPT !.calls[c] = [call EXCEPT !.pc = "compare"]]
  /\ UNCHANGED authOthers

\* checkRateLimiting: clearFailedAttempts after the lockout period
LoginClearExpired(c) ==
  /\ auth.calls[c].pc = "clearExpired"
  /\ auth' = [auth EXCEPT !.setting = NoSetting, !.wrongSinceClear = 0,
                          !.calls[c].pc = "compare"]
  /\ UNCHANGED authOthers

\* password === masterPassword; a wrong password goes on to recordFailedAttempt
LoginCompare(c) ==
  /\ auth.calls[c].pc = "compare"
  /\ IF auth.calls[c].valid
       THEN auth' = [auth EXCEPT !.calls[c].pc = "clear"]
       ELSE /\ auth.wrongSinceClear < MaxWrongEvaluated
            /\ auth' = [auth EXCEPT !.calls[c].pc = "recordRead",
                                    !.wrongSinceClear = @ + 1]
  /\ UNCHANGED authOthers

\* recordFailedAttempt: getSetting
LoginRecordRead(c) ==
  /\ auth.calls[c].pc = "recordRead"
  /\ auth' = [auth EXCEPT !.calls[c].pc = "recordWrite",
                          !.calls[c].read = auth.setting.count]
  /\ UNCHANGED authOthers

\* recordFailedAttempt: upsertSetting(currentAttempts + 1); the call returns
LoginRecordWrite(c) ==
  /\ auth.calls[c].pc = "recordWrite"
  /\ auth' = [auth EXCEPT
       !.setting = [count |-> auth.calls[c].read + 1,
                    updated_at |-> LoginTimes[auth.now], present |-> TRUE],
       !.calls[c].pc = "idle",
       !.calls[c].result = "wrong"]
  /\ UNCHANGED authOthers

\* clearFailedAttempts and createSession of a call with the right password
LoginSucceed(c) ==
  /\ auth.calls[c].pc = "clear"
  /\ auth' = [auth EXCEPT !.setting = NoSetting, !.wrongSinceClear = 0,
                          !.calls[c].pc = "idle",
                          !.calls[c].result = "session"]
  /\ UNCHANGED authOthers

\* time passes
LoginTick ==
  /\ auth.now < Len(LoginTimes)
  /\ auth' = [auth EXCEPT !.now = @ + 1]
  /\ UNCHANGED authOthers

InitLogin ==
  /\ contacts = <<>>
  /\ rows = [id \in DbIds |-> PendingRow("none")]
  /\ NoWorkflow
  /\ adaptiveEnabled = FALSE
  /\ thr = InitialThrottle
  /\ now = 0
  /\ inv = <<>>
  /\ everLeft = {}
  /\ camps = <<>>
  /\ profiles = <<>>
  /\ diag = <<>>
  /\ sentRow = <<>>
  /\ lastSent = <<>>
  /\ inbox = <<>>
  /\ variant = <<>>
  /\ stats = <<>>
  /\ auth = [setting |-> NoSetting,
             calls |-> [c \in LoginCalls |-> IdleCall],
             now |-> 1,
             wrongSinceClear |-> 0]

NextLogin ==
  \/ \E c \in LoginCalls : LoginCheck(c)
  \/ \E c \in LoginCalls : LoginClearExpired(c)
  \/ \E c \in LoginCalls : LoginCompare(c)
  \/ \E c \in LoginCalls : LoginRecordRead(c)
  \/ \E c \in LoginCalls : LoginRecordWrite(c)
  \/ \E c \in LoginCalls : LoginSucceed(c)
  \/ LoginTick

SpecLogin == InitLogin /\ [][NextLogin]_vars

\* ------------------------------------------------------------------------
\* processInboxAIWorkflow of src/lib/inbox/inbox-ai-workflow.ts: one run for a
\* conversation whose inboxLastMessage and inboxWorkflowPending keys were set
\* when the run was triggered.

\* reasons of an invalid fetch-conversation-and-agent result
InvalidReasons ==
  {"conversation-not-found", "not-in-bot-mode", "automation-paused",
   "supabase-not-configured", "no-agent-configured", "agent-not-active",
   "agent-missing-system-prompt"}

HttpOk == 200
HttpError == 500

\* body of the answer of /api/internal/ai-generate
AiBodies == {"reply", "reply-handoff", "error", "empty"}

\* aiResult.success && aiResult.message
AiSucceeded(body) == body \in {"reply", "reply-handoff"}

\* redis.del of both keys, when a Redis client is configured
InboxCleanup(x) ==
  IF x.redis THEN [x EXCEPT !.lastMessage = FALSE, !.pending = FALSE] ELSE x

InboxReturn(x, status) == [x EXCEPT !.pc = "returned", !.status = status]

inboxOthers == <<contacts, dbVars, wf, batchIndex, attempts, phase, stepVars,
                 adaptiveEnabled, thrVars, histVars, inv, everLeft, camps, profiles,
                 diag, sentRow, lastSent, variant, stats, auth>>

\* context.sleep('debounce-wait')
InboxDebounce ==
  /\ inbox.pc = "debounce"
  /\ inbox' = [inbox EXCEPT !.pc = "fetch"]
  /\ UNCHANGED inboxOthers

\* step fetch-conversation-and-agent
InboxFetch ==
  /\ inbox.pc = "fetch"
  /\ \/ \E reason \in InvalidReasons :
          inbox' = [inbox EXCEPT !.pc = "cleanup-invalid", !.reason = reason]
     \/ inbox' = [inbox EXCEPT !.pc = "config"]
  /\ UNCHANGED inboxOthers

\* step cleanup-invalid, return skipped
InboxCleanupInvalid ==
  /\ inbox.pc = "cleanup-invalid"
  /\ inbox' = InboxReturn(InboxCleanup(inbox), "skipped")
  /\ UNCHANGED inboxOthers

\* base URL and API key of the internal endpoint, then context.call('process-ai')
InboxCallAI ==
  /\ inbox.pc = "config"
  /\ IF ~inbox.baseUrl \/ ~inbox.apiKey
       THEN inbox' = InboxReturn(inbox, "error")
       ELSE \E status \in {HttpOk, HttpError}, body \in AiBodies :
              inbox' = [inbox EXCEPT
                !.http = status, !.body = body,
                !.pc = IF status # HttpOk THEN "auto-handoff-http-error"
                       ELSE IF AiSucceeded(body) THEN "send-response"
                       ELSE IF body = "error" THEN "auto-handoff-error"
                       ELSE "cleanup-error"]
  /\ UNCHANGED inboxOthers

\* steps auto-handoff-http-error and auto-handoff-error
InboxAutoHandoff ==
  /\ inbox.pc \in {"auto-handoff-http-error", "auto-handoff-error"}
  /\ inbox' = [inbox EXCEPT
       !.mode = "human",
       !.pc = IF inbox.pc = "auto-handoff-http-error"
                THEN "cleanup-http-error" ELSE "cleanup-error"]
  /\ UNCHANGED inboxOthers

\* steps cleanup-http-error and cleanup-error, return error
InboxCleanupError ==
  /\ inbox.pc \in {"cleanup-http-error", "cleanup-error"}
  /\ inbox' = InboxReturn(InboxCleanup(inbox), "error")
  /\ UNCHANGED inboxOthers

\* step send-response, then handle-handoff when the answer asks for it
InboxSendResponse ==
  /\ inbox.pc = "send-response"
  /\ \E sent \in BOOLEAN :
       inbox' = [inbox EXCEPT
         !.replied = sent,
         !.pc = IF inbox.body = "reply-handoff" THEN "handle-handoff" ELSE "cleanup-success"]
  /\ UNCHANGED inboxOthers

\* step handle-handoff
InboxHandleHandoff ==
  /\ inbox.pc = "handle-handoff"
  /\ inbox' = [inbox EXCEPT !.mode = "human", !.pc = "cleanup-success"]
  /\ UNCHANGED inboxOthers

\* step cleanup-success, return completed
InboxCleanupSuccess ==
  /\ inbox.pc = "cleanup-success"
  /\ inbox' = InboxReturn(InboxCleanup(inbox), "completed")
  /\ UNCHANGED inboxOthers

InitInbox ==
  /\ contacts = <<>>
  /\ rows = [id \in DbIds |-> PendingRow("none")]
  /\ NoWorkflow
  /\ adaptiveEnabled = FALSE
  /\ thr = InitialThrottle
  /\ now = 0
  /\ inv = <<>>
  /\ everLeft = {}
  /\ camps = <<>>
  /\ profiles = <<>>
  /\ diag = <<>>
  /\ sentRow = <<>>
  /\ lastSent = <<>>
  /\ variant = <<>>
  /\ stats = <<>>
  /\ auth = <<>>
  /\ \E baseUrl \in BOOLEAN, apiKey \in BOOLEAN, redis \in BOOLEAN :
       inbox = [pc |-> "debounce", status |-> "none", reason |-> "none",
                baseUrl |-> baseUrl, apiKey |-> apiKey, redis |-> redis,
                lastMessage |-> redis, pending |-> redis,
                http |-> 0, body |-> "none", mode |-> "bot", replied |-> FALSE]

NextInbox ==
  \/ InboxDebounce
  \/ InboxFetch
  \/ InboxCleanupInvalid
  \/ InboxCallAI
  \/ InboxAutoHandoff
  \/ InboxCleanupError
  \/ InboxSendResponse
  \/ InboxHandleHandoff
  \/ InboxCleanupSuccess

SpecInbox == InitInbox /\ [][NextInbox]_vars

\* ------------------------------------------------------------------------
\* Properties

Terminal == {"sent", "failed", "skipped"}

\* C1: with distinct recipient identities in the payload, the external send
\* call is made at most once per recipient over all executions and
\* re-executions of the send-batch steps.
AtMostOnceSend ==
  DistinctIds(contacts) => \A id \in DbIds : sends[id] <= 1

\* a step re-executed after a crash has completed and a recipient sent to by
\* the crashed execution has still been sent to once
AtMostOnceSendWitness ==
  /\ DistinctIds(contacts)
  /\ wf = "batch" /\ phase = "stepdone" /\ attempts = 1
  /\ sendsInExec = 0
  /\ \E id \in ClaimIds(batch) : sends[id] = 1

\* C2: concurrent and duplicate invocations of the claim never return the same
\* recipient id twice, and together they return exactly the rows that ever
\* left pending.
AtMostOnceClaim ==
  /\ \A j, k \in DOMAIN inv :
       j # k => inv[j].claimedIds \cap inv[k].claimedIds = {}
  /\ UNION {inv[k].claimedIds : k \in DOMAIN inv} = everLeft

\* two invocations with overlapping recipient sets have returned, one of them
\* with claimed rows
AtMostOnceClaimWitness ==
  \E j, k \in DOMAIN inv :
    /\ j # k
    /\ inv[j].pc = "returned" /\ inv[k].pc = "returned"
    /\ ClaimIds(inv[j].contacts) \cap ClaimIds(inv[k].contacts) # {}
    /\ inv[j].claimedIds # {}
    /\ inv[k].claimedIds = {}

\* C3: the re-execution of a send-batch step that had completed through
\* persistence and counter update claims nothing, sends nothing, changes no
\* recipient row and leaves the counters sent, failed and skipped as they were.
IdempotentReplay ==
  replay.on =>
    /\ claimedIds = {}
    /\ sendsInExec = 0
    /\ sends = replay.sends
    /\ rows = replay.rows
    /\ Counters(campaign) = replay.counters

\* the replay of a completed step with sent recipients has itself completed
IdempotentReplayWitness ==
  /\ replay.on
  /\ wf = "batch" /\ phase = "stepdone"
  /\ replay.counters.sent > 0

\* C4: a step execution whose claim returned no id leaves before the worker
\* pool and makes no external send call.
NoSendOnZeroClaim ==
  (wf = "batch" /\ claimedIds = {}) =>
    /\ sendsInExec = 0
    /\ nextIndex = 0
    /\ phase \in {"start", "claim", "finally", "stepdone"}

\* the claim ran without error, returned nothing and the step returned
NoSendOnZeroClaimWitness ==
  /\ wf = "batch" /\ phase = "finally" /\ exitKind = "return"
  /\ limiterRate # 0
  /\ ~claimErrored
  /\ claimedIds = {}
  /\ \E id \in ClaimIds(batch) : rows[id].status # "pending"

\* C5: a step execution whose claim got a store error leaves by throwing.
ClaimErrorFailsStep ==
  (wf = "batch" /\ claimErrored) => exitKind = "throw"

\* a contactId that is missing, empty or made of spaces only
BlankIdentity(id) == \A j \in 1..Len(id) : id[j] = Space

\* C6: a payload with a missing or blank contactId stops the run before the
\* init step: the campaign is not set to sending, nothing is claimed, nothing
\* is sent.
StructuralFailureAborts ==
  (\E i \in 1..Len(contacts) : BlankIdentity(contacts[i])) =>
    /\ wf \in {"start", "aborted"}
    /\ campaign.status = "draft"
    /\ \A id \in DbIds : rows[id].status = "pending" /\ sends[id] = 0

\* a run aborted on a payload that holds a blank contactId next to a valid one
StructuralFailureAbortsWitness ==
  /\ wf = "aborted"
  /\ \E i \in 1..Len(contacts) : contacts[i] = <<Space>>
  /\ \E i \in 1..Len(contacts) : contacts[i] \in DbIds

\* C7: every recipient row in a terminal status has the timestamp of its
\* status set and the two other terminal timestamps null.
TerminalExclusivity ==
  \A id \in DbIds :
    rows[id].status \in Terminal =>
      /\ (rows[id].sent_at # NULL) <=> (rows[id].status = "sent")
      /\ (rows[id].failed_at # NULL) <=> (rows[id].status = "failed")
      /\ (rows[id].skipped_at # NULL) <=> (rows[id].status = "skipped")

\* C8: the target rate stays within [minMps, maxMps] under every sequence of
\* signals of the campaigns sharing the phone number.
AIMDBounds == MinMps <= thr.targetMps /\ thr.targetMps <= MaxMps

\* both campaigns have decreased and the rate sits on the floor
AIMDBoundsWitness ==
  /\ thr.targetMps = MinMps
  /\ \A c \in DOMAIN camps : camps[c].sawThroughput429
  /\ camps # <<>>

\* C9: a throughput-exceeded signal leaves cooldownUntil later than now, and
\* the target rate is only increased outside the cooldown and at least
\* minIncreaseGapSec after the last increase.
CooldownDiscipline ==
  [][/\ \A c \in DOMAIN camps :
          (camps'[c].sawThroughput429 /\ ~camps[c].sawThroughput429) =>
            thr'.cooldownUntil > now
     /\ thr'.targetMps > thr.targetMps =>
          /\ now >= thr.cooldownUntil
          /\ (thr.lastIncreaseAt = Never \/ now - thr.lastIncreaseAt >= MinIncreaseGapSec)
    ]_vars

\* an increase was applied after the cooldown of an earlier decrease had ended
CooldownDisciplineWitness ==
  /\ camps # <<>>
  /\ thr.cooldownUntil > 0
  /\ thr.lastIncreaseAt >= thr.cooldownUntil

\* C10: one step execution applies the throttle decrease at most once.
AtMostOneDecreasePerBatch == decreases <= 1

ThroughputOps(ops) ==
  {i \in 1..Len(ops) : ops[i].errorCode = ThroughputExceededCode}

\* two recipients of one step execution got the throughput-exceeded code and
\* one decrease was applied
AtMostOneDecreasePerBatchWitness ==
  /\ adaptiveEnabled
  /\ decreases = 1
  /\ Cardinality(ThroughputOps(writeOps)) = 2

\* C11: a write operation made for a send response is sent exactly when the
\* response is a 2xx that carries a message id, and failed otherwise.
OutcomeClassification ==
  \A i \in 1..Len(writeOps) :
    writeOps[i].resp # NoResponse =>
      /\ writeOps[i].status \in {"sent", "failed"}
      /\ (writeOps[i].status = "sent") <=>
           (writeOps[i].resp \in {"ok_id", "ok_noid"} /\ writeOps[i].resp \in {"ok_id", "err_id"})

\* one step execution recorded a 2xx without message id and a 2xx with one
OutcomeClassificationWitness ==
  /\ \E i \in 1..Len(writeOps) :
       writeOps[i].resp = "ok_noid" /\ writeOps[i].status = "failed"
  /\ \E i \in 1..Len(writeOps) :
       writeOps[i].resp = "ok_id" /\ writeOps[i].status = "sent"

\* C12: a claimed recipient whose template token resolves to an empty value
\* is recorded skipped with code MISSING_REQUIRED_PARAM and a reason naming
\* the parameter position and the raw token, no send call is made for it, and
\* the recipients of the batch that pass every check still get their send call.
GuardrailSkip ==
  /\ \A k \in 1..Len(writeOps) :
       profiles[writeOps[k].idx].email = "" =>
         /\ writeOps[k].status = "skipped"
         /\ writeOps[k].skipCode = "MISSING_REQUIRED_PARAM"
         /\ writeOps[k].skipReason = MissingParamReason
         /\ writeOps[k].resp = NoResponse
  /\ \A w \in 1..concurrency :
       workers[w].pc \in {"fetch", "decrease"} => profiles[workers[w].idx].email # ""
  /\ AllWorkersDone =>
       \A i \in 1..Len(batch) :
         (/\ batch[i] \in claimedIds
          /\ profiles[i].email # "" /\ ~profiles[i].optOut /\ ~profiles[i].suppressed) =>
           \E k \in 1..Len(writeOps) :
             writeOps[k].idx = i /\ writeOps[k].resp # NoResponse

\* the pool has finished a batch of an ineligible recipient, recorded skipped,
\* and of another recipient that was sent to
GuardrailSkipWitness ==
  /\ AllWorkersDone
  /\ \E k \in 1..Len(writeOps) :
       profiles[writeOps[k].idx].email = "" /\ writeOps[k].status = "skipped"
  /\ \E k \in 1..Len(writeOps) : writeOps[k].resp = "ok_id"

\* C13: when the pool has finished, every claimed recipient has exactly one
\* write operation, no write operation belongs to an unclaimed recipient, and
\* the three counts add up to the number of claimed recipients.
ExactlyOneOutcome ==
  AllWorkersDone =>
    /\ \A id \in claimedIds :
         Cardinality({k \in 1..Len(writeOps) : Trim(writeOps[k].cid) = id}) = 1
    /\ \A k \in 1..Len(writeOps) : Trim(writeOps[k].cid) \in claimedIds
    /\ counts.sent + counts.failed + counts.skipped = Cardinality(claimedIds)

\* C14: an exception raised while a recipient is processed leaves a failed
\* write operation with the exception message, does not make the step throw,
\* and every other claimed entry of the batch is still processed by the pool.
ContactExceptionContained ==
  (\E k \in 1..Len(writeOps) : writeOps[k].resp = "throw") =>
    /\ \A k \in 1..Len(writeOps) :
         writeOps[k].resp = "throw" =>
           writeOps[k].status = "failed" /\ writeOps[k].error = ExceptionMessage
    /\ exitKind # "throw"
    /\ (phase = "workers" /\ AllWorkersDone) =>
         \A i \in 1..Len(batch) :
           batch[i] \in claimedIds => \E k \in 1..Len(writeOps) : writeOps[k].idx = i

\* a pool of one worker: the first recipient of the batch raised an exception,
\* the second one was sent to, and the step has left its finally block
ContactExceptionContainedWitness ==
  /\ wf = "batch" /\ phase = "counters"
  /\ nextIndex = Len(batch) + 1
  /\ Len(writeOps) = 2
  /\ writeOps[1].resp = "throw" /\ writeOps[1].idx = 1
  /\ writeOps[2].resp = "ok_id" /\ writeOps[2].idx = 2

\* C15: the complete step leaves the campaign failed exactly when failed plus
\* skipped equals a positive number of recipients, completed otherwise, and
\* stamps completedAt.
CompleteStatus ==
  wf = "done" =>
    /\ campaign.status \in {"failed", "completed"}
    /\ (campaign.status = "failed") <=>
         (campaign.failed + campaign.skipped = campaign.recipients /\ campaign.recipients > 0)
    /\ campaign.completedAt # NULL

\* a campaign of several recipients, all of them failed, has ended failed
CompleteStatusWitness ==
  /\ wf = "done"
  /\ campaign.recipients > 1
  /\ campaign.sent = 0 /\ campaign.skipped = 0
  /\ campaign.failed = campaign.recipients
  /\ campaign.status = "failed"

\* C16: when the batches of a campaign with distinct recipients are over, the
\* counters sent, failed and skipped hold the outcome of every recipient that
\* was claimed, once.
CountersExactlyOnce ==
  (wf = "complete" /\ DistinctIds(contacts)) =>
    campaign.sent + campaign.failed + campaign.skipped =
      Cardinality({id \in DbIds : rows[id].status # "pending"})

\* C17: a step that reads the status paused at its entry returns at the pause
\* check, and from there to its end no recipient row changes, nothing is
\* claimed, no send call is made and the campaign counters stay as they were.
PausedBatchIsNoop ==
  [][/\ (/\ wf = "batch" /\ phase = "start" /\ campaign.status = "paused"
         /\ phase' \in {"claim", "finally"} /\ exitKind' # "throw")
          => exitKind' = "paused"
     /\ (wf = "batch" /\ (exitKind = "paused" \/ exitKind' = "paused"))
          => /\ rows' = rows
             /\ sends' = sends
             /\ claimedIds' = {}
             /\ Counters(campaign') = Counters(campaign)
    ]_vars

\* the second batch of a campaign found it paused and returned, its recipients
\* still pending, after the first batch had sent
PausedBatchIsNoopWitness ==
  /\ wf = "batch" /\ phase = "stepdone" /\ exitKind = "paused"
  /\ batchIndex = 1
  /\ campaign.sent > 0
  /\ \A id \in ClaimIds(batch) : rows[id].status = "pending"

\* C18: the init step is over before batch 0 starts, batch i + 1 starts only
\* when the step function of batch i has returned (persistence and counter
\* update included), and the complete step starts only after the last batch.
StepOrder ==
  [][/\ (wf' = "batch" /\ wf # "batch")
          => (wf = "init" /\ batchIndex' = 0 /\ campaign'.status = "sending")
     /\ batchIndex' # batchIndex
          => /\ wf = "batch" /\ wf' = "batch"
             /\ batchIndex' = batchIndex + 1
             /\ phase = "stepdone" /\ phase' = "start"
     /\ (wf' = "complete" /\ wf # "complete")
          => \/ wf = "batch" /\ phase = "stepdone"
                /\ batchIndex + 1 = NumBatches(contacts)
             \/ wf = "init" /\ NumBatches(contacts) = 0
     /\ (wf' = "done" /\ wf # "done") => wf = "complete"
    ]_vars

\* the complete step is about to run after two batches that went through
\* their counter update
StepOrderWitness ==
  /\ wf = "complete"
  /\ batchIndex = 1
  /\ campaign.sent + campaign.failed + campaign.skipped = Len(contacts)

\* C19: the diagnostic columns stored for a failed recipient are at most 200
\* (title), 800 (details), 200 (trace id) and 400 (href) characters long, the
\* truncation marker included, on the bulk-upsert path and on the per-row
\* fallback path, whatever the length of the provider's texts.
DiagnosticCaps ==
  diag # <<>> =>
    LET Fits(text, cap) == text # Undefined => Len(text) <= cap
    IN  /\ Fits(diag.stored.failure_title, TitleCap)
        /\ Fits(diag.stored.failure_details, DetailsCap)
        /\ Fits(diag.stored.failure_fbtrace_id, FbtraceCap)
        /\ Fits(diag.stored.failure_href, HrefCap)

DiagnosticCapsWitness ==
  /\ diag # <<>>
  /\ diag.path = "fallback"
  /\ diag.opts.errorDetails # Undefined /\ Len(diag.opts.errorDetails) > DetailsCap
  /\ diag.opts.errorHref # Undefined /\ Len(diag.opts.errorHref) > HrefCap
  /\ Len(diag.stored.failure_details) = DetailsCap
  /\ diag.stored.failure_details[DetailsCap] = TruncationMarker
  /\ diag.stored.failure_href # Undefined /\ Len(diag.stored.failure_href) <= HrefCap

\* C20: a recipient is skipped before any rate-limiter acquire is made for it,
\* and a suppressed or opted-out recipient is skipped by the suppression/opt-out
\* check, before Guardrail validation runs: no skipped write operation is made
\* by a worker that has acquired the limiter for the recipient, and the skipped
\* write operation of a suppressed or opted-out recipient carries the code of
\* the suppression/opt-out check.
StageOrder ==
  [][(Len(writeOps') > Len(writeOps) /\ writeOps'[Len(writeOps')].status = "skipped") =>
       LET op == writeOps'[Len(writeOps')]
       IN  /\ \A w \in DOMAIN workers :
                ~(workers[w].pc = "acquire" /\ workers[w].idx = op.idx)
           /\ (profiles[op.idx].optOut \/ profiles[op.idx].suppressed) =>
                op.skipCode \in {"OPT_OUT", "SUPPRESSED"}]_vars

\* C21 as stated: whatever the throttle configuration, a worker starts the
\* external send call of a recipient only from the completion of acquire() on
\* the limiter of the step.
SendAfterAcquire ==
  [][\A w \in DOMAIN workers :
       (workers'[w].pc = "fetch" /\ workers[w].pc # "fetch") =>
          workers[w].pc = "acquire"]_vars

\* C21: in a send-batch step whose adaptive throttle is enabled the pool has
\* one limiter, and a worker starts the external send call of a recipient only
\* from the completion of acquire() on it; a step whose adaptive throttle is
\* disabled has no limiter.
LimitedSendAfterAcquire ==
  [][/\ phase = "workers" => ((limiterRate # 0) <=> adaptiveEnabled)
     /\ adaptiveEnabled =>
          \A w \in DOMAIN workers :
            (workers'[w].pc = "fetch" /\ workers[w].pc # "fetch") =>
               workers[w].pc = "acquire"]_vars

\* both workers of the pool are in their send call, each after its acquire
LimitedSendAfterAcquireWitness ==
  /\ adaptiveEnabled
  /\ limiterRate # 0
  /\ \A w \in DOMAIN workers : workers[w].pc = "fetch"

\* C22: the limiter of a step takes the target rate read at the start of the
\* step; it keeps that rate while the pool runs, except that a
\* throughput-exceeded decrease sets the rate of the same limiter to the
\* decreased target rate, in the same step execution and with the pool still
\* running.
LiveLimiterRate ==
  [][/\ (phase = "start" /\ phase' = "claim" /\ adaptiveEnabled) =>
          limiterRate' = thr.targetMps
     /\ (decreases' = decreases + 1) =>
          /\ phase = "workers" /\ phase' = "workers"
          /\ attempts' = attempts /\ batchIndex' = batchIndex
          /\ limiterRate' = thr'.targetMps
          /\ limiterRate' <= limiterRate
     /\ (phase \in {"claim", "workers"} /\ phase' \in {"claim", "workers"}
         /\ decreases' = decreases) =>
          limiterRate' = limiterRate]_vars

\* a decrease has lowered the rate of the limiter while a worker of the same
\* pool is waiting in acquire()
LiveLimiterRateWitness ==
  /\ phase = "workers"
  /\ decreases = 1
  /\ limiterRate < MaxMps
  /\ limiterRate = thr.targetMps
  /\ \E w \in DOMAIN workers : workers[w].pc = "acquire"

\* a response with the throughput-exceeded code was received in this step execution
SignalSeen == \E k \in 1..Len(writeOps) : writeOps[k].resp = "err429"

\* the finally block of the step execution runs to its end
FinallyStep == phase = "finally" /\ phase' # "finally" /\ faults' = faults

\* C23 as stated: the finally block of a step execution issues the
\* stable-batch check exactly when no throughput-exceeded signal was seen in
\* the execution.
StableCheckOnQuietStep ==
  [][FinallyStep => ((stableChecks' = 1) <=> ~SignalSeen)]_vars

\* C23: the finally block of a step execution issues the stable-batch check,
\* once, exactly when the adaptive throttle is enabled and no
\* throughput-exceeded signal was seen in the execution, whichever way the
\* execution left its try block (pause, zero claim, exception, or the end of
\* persistence); nothing else issues it.
StableCheckOnQuietAdaptiveStep ==
  [][/\ FinallyStep => ((stableChecks' = 1) <=> (adaptiveEnabled /\ ~SignalSeen))
     /\ FinallyStep => stableChecks = 0
     /\ (~FinallyStep /\ phase # "start") => stableChecks' = stableChecks]_vars

\* a step that returned at its pause check has issued the stable-batch check
StableCheckOnQuietAdaptiveStepWitness ==
  /\ phase = "stepdone"
  /\ exitKind = "paused"
  /\ stableChecks = 1

\* C24: result persistence starts only when every worker of the pool has
\* finished, and the write operations it persists then hold an outcome of every
\* recipient the step claimed.
PersistAfterJoin ==
  [][(phase = "workers" /\ phase' \in {"fallback", "finally"}) =>
       /\ \A w \in DOMAIN workers : workers[w].pc = "done"
       /\ \A id \in claimedIds : \E k \in 1..Len(writeOps) : writeOps[k].cid = id]_vars

\* positions of the batch taken from the cursor whose recipient has no outcome yet
InProcessing ==
  {i \in 1..Min2(nextIndex, Len(batch)) :
     IsClaimedNow(claimedIds, batch[i]) /\ ~\E k \in 1..Len(writeOps) : writeOps[k].idx = i}

\* C25: while the pool runs, every position taken from the shared cursor is
\* held by exactly one worker until its outcome is recorded, no position gets
\* two outcomes, at most `concurrency` recipients are in processing at a time,
\* and when all workers have finished every position of the batch has been
\* taken.
CursorExactlyOnce ==
  (wf = "batch" /\ phase = "workers") =>
    /\ InProcessing = {workers[w].idx : w \in DOMAIN workers} \ {0}
    /\ \A w, v \in DOMAIN workers :
         (w # v /\ workers[w].idx # 0) => workers[w].idx # workers[v].idx
    /\ \A k, l \in 1..Len(writeOps) : writeOps[k].idx = writeOps[l].idx => k = l
    /\ Cardinality(InProcessing) <= concurrency
    /\ Cardinality({w \in DOMAIN workers : workers[w].pc # "done"}) <= Min2(concurrency, Len(batch))
    /\ AllWorkersDone =>
         /\ nextIndex >= Len(batch)
         /\ \A i \in 1..Len(batch) :
              IsClaimedNow(claimedIds, batch[i]) => \E k \in 1..Len(writeOps) : writeOps[k].idx = i

\* both workers hold a position, the second one taken before the first was done
CursorExactlyOnceWitness ==
  /\ wf = "batch" /\ phase = "workers"
  /\ Len(batch) = 2
  /\ \E w, v \in DOMAIN workers :
       /\ workers[w].idx = 2 /\ workers[w].pc = "fetch"
       /\ workers[v].idx = 1 /\ workers[v].pc \in {"acquire", "fetch"}

\* C27: after a failed bulk upsert the per-row fallback goes through the write
\* operations of the batch one by one, from the first to the last, each step
\* touching at most the row of its operation, and it ends only after the last
\* operation, whether or not the earlier writes went through.
FallbackCoversEveryRow ==
  [][/\ (phase = "workers" /\ phase' = "fallback") => fbIndex' = 1
     /\ (phase = "fallback" /\ faults' = faults) =>
          /\ fbIndex' = fbIndex + 1
          /\ \A id \in DOMAIN rows : id # writeOps[fbIndex].cid => rows'[id] = rows[id]
          /\ rows'[writeOps[fbIndex].cid] \in
               {rows[writeOps[fbIndex].cid],
                UpdateContactStatusRow(rows[writeOps[fbIndex].cid], writeOps[fbIndex].status)}
          /\ (phase' # "fallback") <=> (fbIndex = Len(writeOps))]_vars

\* the fallback is over: the write of the first operation failed, the row of
\* the second operation was written all the same
FallbackCoversEveryRowWitness ==
  /\ phase = "finally"
  /\ Len(writeOps) = 2 /\ fbIndex = 3
  /\ writeOps[1].cid # writeOps[2].cid
  /\ rows[writeOps[1].cid].status = "sending"
  /\ rows[writeOps[2].cid].status = writeOps[2].status

\* C28: a send-batch step whose persistence failed altogether does not complete:
\* no step execution that recorded outcomes returns, its counts added to the
\* campaign counters, while the row of every recorded outcome is still sending.
TotalPersistFailurePropagates ==
  (wf = "batch" /\ phase = "stepdone" /\ exitKind = "none" /\ writeOps # <<>>) =>
    \E k \in 1..Len(writeOps) : rows[writeOps[k].cid].status # "sending"

\* C26: a pause that arrives after the pause check of a step does not stop the
\* step: the step returns at a pause only from its entry, and when its
\* persistence ends with the campaign paused, every recipient the step claimed
\* has an outcome and its row holds that outcome.
PausedMidBatchCompletes ==
  [][/\ (exitKind' = "paused" /\ exitKind # "paused") => phase = "start"
     /\ (PauseCheck(campaign) /\ exitKind = "none"
         /\ phase \in {"workers", "fallback"} /\ phase' = "finally") =>
          \A id \in claimedIds :
            \E k \in 1..Len(writeOps) :
              writeOps[k].cid = id /\ rows'[id].status = writeOps[k].status]_vars

\* C29: a recipient row persisted as sent has all its failure columns and all
\* its skip columns null, on the bulk path and on the fallback path, whatever
\* the row carried from an earlier attempt.
SentRowCleared ==
  (sentRow # <<>> /\ sentRow.row["status"] = "sent") =>
    \A f \in FailureFields \cup SkipFields : sentRow.row[f] = NULL

\* C30: over the send-batch steps of a campaign lastSentAt never decreases and
\* is never unset; it changes only to the last-sent time of a batch that is
\* later than the stored value (or when none was stored), and an early return
\* leaves it alone.
LastSentAtMonotone ==
  [][(lastSent # <<>> /\ lastSent' # <<>>) =>
       /\ lastSent'.stored >= lastSent.stored
       /\ lastSent'.stored # lastSent.stored =>
            /\ lastSent.candidate # NoStamp
            /\ lastSent'.stored = lastSent.candidate
       /\ (lastSent.pc = "batch" /\ lastSent'.pc = "idle"
           /\ lastSent.candidate > lastSent.stored) =>
            lastSent'.stored = lastSent.candidate]_vars

\* the counter update of a later step has kept the stored time against an
\* earlier last-sent time of its batch
LastSentAtMonotoneWitness ==
  /\ lastSent # <<>>
  /\ lastSent.pc = "idle" /\ lastSent.steps >= 2
  /\ lastSent.candidate # NoStamp
  /\ lastSent.candidate < lastSent.stored

\* indices of the batch_end events of a step log
BatchEnds(log) == {i \in DOMAIN log.events : log.events[i].phase = "batch_end"}

\* the step function has ended, by return or by throw
StepEnded == stepLog.exit \in {"return", "throw"}

\* C31: a step execution that emitted batch_start and ended (normal end, paused
\* return, zero-claim return, exception) has emitted exactly one batch_end,
\* and that event has ok = false exactly when the step threw.
BatchEndClosesStep ==
  StepEnded =>
    /\ stepLog.events[1] = BatchStartEvent
    /\ Cardinality(BatchEnds(stepLog)) = 1
    /\ \A i \in BatchEnds(stepLog) :
         (stepLog.events[i].ok = FALSE) <=> (stepLog.exit = "throw")

\* C31 (amended): exactly one batch_end is emitted before the step ends, on
\* every exit path, and it has ok = false exactly when the try block of the
\* step threw; a throw of the counter update that follows the finally block
\* leaves the batch_end event with ok = true.
BatchEndClosesTryBlock ==
  [][/\ FinallyStep =>
          /\ stepLog.events = <<BatchStartEvent>>
          /\ Cardinality(BatchEnds(stepLog')) = 1
          /\ \A i \in BatchEnds(stepLog') :
               (stepLog'.events[i].ok = FALSE) <=> (exitKind = "throw")
     /\ (wf = "batch" /\ phase \in {"counters", "stepdone"}) =>
          /\ stepLog'.events = stepLog.events
          /\ Cardinality(BatchEnds(stepLog)) = 1
     /\ (stepLog'.exit \in {"return", "throw"} /\ stepLog.exit = "none") =>
          Cardinality(BatchEnds(stepLog')) = 1]_vars

BatchEndClosesTryBlockWitness ==
  /\ stepLog.exit = "throw"
  /\ stepLog.events = <<BatchStartEvent, [phase |-> "batch_end", ok |-> FALSE]>>

StatsProgressionConcurrent ==
  stats.done =>
    /\ stats.count["sent"] >= stats.count["delivered"]
    /\ stats.count["delivered"] >= stats.count["read"]

\* C33: in the workflow with a claim per contact, the re-execution of a
\* completed send-batch step adds zero to the counters sent, failed and skipped
\* and changes no row that is no longer pending.
VariantReplayIdempotent ==
  (variant.exec = 2 /\ variant.pc = "done") =>
    /\ variant.counters = variant.before.counters
    /\ \A i \in VariantIds :
         variant.before.rows[i].status # "pending" =>
           variant.rows[i] = variant.before.rows[i]

\* the run has failed: payload rejected, or the retry bound of a step exhausted
RunFailed == wf \in {"aborted", "failed"}

\* C34: a run that does not fail ends after init-campaign, every send-batch
\* step and complete-campaign with the campaign completed or failed, and the
\* worker pool of every send-batch step comes to its end.
Termination ==
  /\ <>(wf = "done" \/ RunFailed)
  /\ [](wf = "done" =>
          /\ campaign.status \in {"completed", "failed"}
          /\ NumBatches(contacts) > 0 => batchIndex = NumBatches(contacts) - 1)
  /\ (wf = "batch" /\ phase = "workers") ~> (phase # "workers")
  /\ [][(phase = "workers" /\ phase' \notin {"workers", "start", "none"}) =>
          (AllWorkersDone /\ nextIndex >= Len(batch))]_vars

TerminationWitness ==
  /\ wf = "done"
  /\ campaign.status = "completed"
  /\ NumBatches(contacts) = 2
  /\ faults > 0

\* identities named by more than one entry of one batch of the payload
RepeatedInBatch ==
  {id \in DbIds : \E b \in 0..(NumBatches(contacts) - 1) :
     \E i, j \in 1..Len(Batch(contacts, b)) :
       i # j /\ Batch(contacts, b)[i] = id /\ Batch(contacts, b)[j] = id}

\* C35: an identity named by more than one entry of one batch is still sent to
\* at most once in the campaign, and at most one outcome is recorded for it.
RepeatedIdentitySentOnce ==
  \A id \in RepeatedInBatch :
    /\ sends[id] <= 1
    /\ Cardinality({k \in 1..Len(writeOps) : writeOps[k].cid = id}) <= 1

\* C36: when complete-campaign has set the campaign completed or failed, every
\* recipient of the payload is sent, failed or skipped; none is pending or sending.
CompleteLeavesNoneBehind ==
  (wf = "done" /\ campaign.status \in {"completed", "failed"}) =>
    \A id \in ClaimIds(contacts) : rows[id].status \in Terminal

\* C37: a campaign that was paused when the last send-batch step skipped its
\* batch and is still paused when complete-campaign runs keeps the status
\* paused.
PausedSurvivesComplete ==
  [][(wf = "complete" /\ wf' = "done" /\ stepLog.paused /\ PauseCheck(campaign)) =>
       campaign'.status = "paused"]_vars

\* C39: once MAX_LOGIN_ATTEMPTS failed attempts are recorded, a loginUser call
\* is rejected without a session until the lockout period has passed since the
\* last recorded failure; a successful login clears the recorded attempts; and
\* over every interleaving of concurrent calls no more than MAX_LOGIN_ATTEMPTS
\* wrong passwords are evaluated before the attempts are cleared.
LoginLockout ==
  /\ [][\A c \in LoginCalls :
          /\ (/\ auth.calls[c].pc = "idle" /\ auth'.calls[c] # auth.calls[c]
              /\ IsLocked(auth.setting)
              /\ LoginTimes[auth.now] - auth.setting.updated_at <= LOCKOUT_DURATION) =>
               (auth'.calls[c].pc = "idle" /\ auth'.calls[c].result = "locked")
          /\ (auth'.calls[c].result = "session" /\ auth.calls[c].pc = "clear") =>
               ~auth'.setting.present]_vars
  /\ [](auth.wrongSinceClear <= MAX_LOGIN_ATTEMPTS)

\* C40: when a run of processInboxAIWorkflow has returned, on whichever path,
\* neither the inboxLastMessage nor the inboxWorkflowPending key of its
\* conversation is left.
InboxReturnedClean ==
  inbox.pc = "returned" => (~inbox.lastMessage /\ ~inbox.pending)

====
